---- MODULE Spec2Model ----
(***************************************************************************)
(* A model of eups' ProductStack (python/eups/stack/ProductStack.py): the  *)
(* in-memory lookup flavor -> product name -> ProductFamily, the dirty     *)
(* list, the modification-time ledger, the user-tag overlay, and the       *)
(* persistence protocol (save / persist / reload / fromCache) against a    *)
(* shared disk, a clock, the advisory lock files and the ups_db database.  *)
(* Several processes, each owning one ProductStack, run against the same   *)
(* directories.                                                            *)
(***************************************************************************)
EXTENDS Naturals, Sequences, FiniteSets, TLC

\* ------------------------------------------------------------------ bounds
\* number of top-level operations (method calls) started in one behaviour
MaxOps == 2
\* last value of the clock that stamps modification times
MaxClock == 3
MaxCacheOps == 3
MaxTripOps == 4
MaxQueryOps == 2
MaxFreshOps == 4
MaxReloadOps == 3
MaxImportOps == 3
MaxInitOps == 2
MaxSaveOps == 3

\* ------------------------------------------------------------ the universe
Procs == {"p1", "p2"}
Flavors == {"Linux", "Linux64"}
Names == {"astro"}
Versions == {"1.0", "1.1"}
\* a tag name is the sequence of its pieces, so that startswith() is computed
userPrefix == <<"user", ".">>
GlobalTag == <<"current">>
UserTag == <<"user", ".", "t">>
Tags == {GlobalTag, UserTag}
\* the default cache directory (persistDir, else dbpath) and an override
DefaultDir == "ups_db"
AltDir == "alt"
Dirs == {DefaultDir, AltDir}
NoDir == "None"
NoVersion == "None"
NoFlavor == "None"

\* tag.startswith(userPrefix)
StartsWith(s, pre) ==
    /\ Len(s) >= Len(pre)
    /\ SubSeq(s, 1, Len(pre)) = pre

IsUserTag(tag) == StartsWith(tag, userPrefix)

\* ------------------------------------------------------- dictionaries
\* a python dict is a function whose domain is its key set
EmptyDict == [k \in {} |-> k]

Put(d, k, v) == [x \in (DOMAIN d) \cup {k} |-> IF x = k THEN v ELSE d[x]]

Del(d, k) == [x \in (DOMAIN d) \ {k} |-> d[x]]

\* filter(lambda x: x != e, lis)
FilterOut(lis, e) == SelectSeq(lis, LAMBDA x : x # e)

InSeq(lis, e) == \E i \in 1..Len(lis) : lis[i] = e

SeqToSet(lis) == {lis[i] : i \in 1..Len(lis)}

\* a fixed enumeration order of a set (os.listdir order, dict key order):
\* one order, the same at every call
RECURSIVE SetToSeq(_)
SetToSeq(S) ==
    IF S = {} THEN <<>>
    ELSE LET x == CHOOSE y \in S : TRUE
         IN  <<x>> \o SetToSeq(S \ {x})

\* list.sort() of version strings: the order of the strings of Versions
\* and of the empty string
sortRank ==
    [v \in Versions \cup {""} |->
        IF v = "" THEN 0 ELSE IF v = "1.0" THEN 1 ELSE 2]

\* _lol2l: a list of lists made one list
RECURSIVE lol2l(_)
lol2l(lol) == IF lol = <<>> THEN <<>> ELSE Head(lol) \o lol2l(Tail(lol))

\* the loop of _uniquify: n times, the first item goes to the end unless it
\* occurs again in the rest
RECURSIVE uniquifyLoop(_, _)
uniquifyLoop(lis, n) ==
    IF n = 0 THEN lis
    ELSE LET item == Head(lis)
             rest == Tail(lis)
         IN  uniquifyLoop(IF InSeq(rest, item) THEN rest
                          ELSE Append(rest, item), n - 1)

\* _uniquify: that loop, then lis.sort()
uniquify(lis) ==
    SortSeq(uniquifyLoop(lis, Len(lis)), LAMBDA a, b : sortRank[a] < sortRank[b])

\* ------------------------------------------------------- ProductFamily
\* a family: the versions of one product in one flavor and its tags
NewFamily == [versions |-> {}, tags |-> EmptyDict]

PF_addVersion(fam, version) == [fam EXCEPT !.versions = @ \cup {version}]

PF_hasVersion(fam, version) == version \in fam.versions

PF_getVersions(fam) == SetToSeq(fam.versions)

PF_getTags(fam) == DOMAIN fam.tags

\* removing a version drops the tags it carried
PF_removeVersion(fam, version) ==
    [versions |-> fam.versions \ {version},
     tags |-> [t \in {u \in DOMAIN fam.tags : fam.tags[u] # version}
                 |-> fam.tags[t]]]

\* last assignment wins: a tag is carried by one version
PF_assignTag(fam, tag, version) == [fam EXCEPT !.tags = Put(@, tag, version)]

PF_unassignTag(fam, tag) == [fam EXCEPT !.tags = Del(@, tag)]

PF_getTaggedProduct(fam, tag) ==
    IF tag \in DOMAIN fam.tags THEN fam.tags[tag] ELSE NoVersion



\* ------------------------------------------------------------------ state
VARIABLES
    clock,      \* the time that stamps a file written (or touched) now
    files,      \* cache files: <<dir, flavor>> -> [mtime, data]
    tagfiles,   \* user-tag files: <<flavor, tag>> -> product -> version
    locks,      \* lock files: <<dir, flavor>> -> the process holding it
    db,         \* ups_db: the declared products
    dbmtime,    \* the time of the last change of ups_db
    lookup,     \* per process: self.lookup
    updated,    \* per process: self.updated, the dirty flavors
    modtimes,   \* per process: self.modtimes, the ledger
    usertags,   \* per process: self.usertags
    autosave,   \* per process: self.autosave
    userTagDir, \* per process: whether self.userTagDir is set
    ctl,        \* per process: where it is inside its current operation
    hist,       \* the operations that ended, in order, with their outcomes
    left        \* how many more operations may start

diskVars == <<files, tagfiles, locks>>
dbVars == <<db, dbmtime>>
cfgVars == <<autosave, userTagDir>>
memVars == <<lookup, updated, modtimes, usertags>>
vars == <<clock, files, tagfiles, locks, db, dbmtime, lookup, updated,
          modtimes, usertags, autosave, userTagDir, ctl, hist, left>>

Paths == Dirs \X Flavors
Free == "free"

\* a product record as the database or a caller hands it to addProduct
Products == [name : Names \cup {""}, version : Versions, flavor : Flavors,
             tags : SUBSET Tags]

Idle == [pc |-> "idle", op |-> "none", arg |-> EmptyDict, sflav |-> <<>>,
         sdir |-> NoDir, oos |-> <<>>, ret |-> "ok", loop |-> FALSE,
         prods |-> <<>>, rflav |-> <<>>, post |-> FALSE]

NoOp == [proc |-> "none", op |-> "none", arg |-> EmptyDict, result |-> "ok"]

\* ------------------------------------------------------------ path rules
\* _persistDir: the override, else persistDir, else dbpath
persistDirOf(dir) == IF dir = NoDir THEN DefaultDir ELSE dir

\* _persistPath
persistPath(flavor, dir) == <<persistDirOf(dir), flavor>>

\* findCachedFlavors: the flavors with a cache file in the directory
findCachedFlavors(dir) ==
    SetToSeq({f \in Flavors : <<dir, f>> \in DOMAIN files})

\* ------------------------------------------------------------ queries
getFlavors(p) == SetToSeq(DOMAIN lookup[p])

\* what a query gives: the value it returns, or the error it raises
Gives(value) == [raises |-> "none", value |-> value]

Raises(error) == [raises |-> error, value |-> {}]

\* getProductNames(flavor): self.lookup[flavor] of an unknown flavor raises
getProductNames(p, flavor) ==
    IF flavor = NoFlavor
    THEN Gives(UNION {DOMAIN lookup[p][f] : f \in DOMAIN lookup[p]})
    ELSE IF flavor \in DOMAIN lookup[p] THEN Gives(DOMAIN lookup[p][flavor])
    ELSE Raises("KeyError")

\* getTags(flavor): the same indexing
getTags(p, flavor) ==
    LET tagsOf(f) == UNION {PF_getTags(lookup[p][f][n]) :
                              n \in DOMAIN lookup[p][f]}
    IN  IF flavor = NoFlavor
        THEN Gives(UNION {tagsOf(f) : f \in DOMAIN lookup[p]})
        ELSE IF flavor \in DOMAIN lookup[p] THEN Gives(tagsOf(flavor))
        ELSE Raises("KeyError")

\* getVersions(productName, flavor); without a flavor z[productName] of one
\* flavor that lacks the product raises the KeyError that empties the result
getVersions(p, name, flavor) ==
    IF flavor = NoFlavor
    THEN IF \A f \in DOMAIN lookup[p] : name \in DOMAIN lookup[p][f]
         THEN uniquify(lol2l([i \in 1..Len(getFlavors(p)) |->
                 PF_getVersions(lookup[p][getFlavors(p)[i]][name])]))
         ELSE <<>>
    ELSE IF flavor \in DOMAIN lookup[p] /\ name \in DOMAIN lookup[p][flavor]
    THEN PF_getVersions(lookup[p][flavor][name])
    ELSE <<>>

\* hasProduct(name, flavor, version): without a flavor any flavor will do,
\* without a version any version
RECURSIVE hasProduct(_, _, _, _)
hasProduct(p, name, flavor, version) ==
    IF flavor = NoFlavor
    THEN \E f \in DOMAIN lookup[p] : hasProduct(p, name, f, version)
    ELSE /\ flavor \in DOMAIN lookup[p]
         /\ name \in DOMAIN lookup[p][flavor]
         /\ version = NoVersion
            \/ PF_hasVersion(lookup[p][flavor][name], version)

\* the record returned, or the error raised
\* a getProduct that returns a record for any version of a known product
getProductAnyVersion(p, name, version, flavor) ==
    IF flavor \in DOMAIN lookup[p] /\ name \in DOMAIN lookup[p][flavor]
    THEN [name |-> name, version |-> version, flavor |-> flavor,
          db |-> DefaultDir]
    ELSE [name |-> "ProductNotFound", version |-> version, flavor |-> flavor,
          db |-> NoDir]

getProduct(p, name, version, flavor) ==
    IF /\ flavor \in DOMAIN lookup[p]
       /\ name \in DOMAIN lookup[p][flavor]
       /\ PF_hasVersion(lookup[p][flavor][name], version)
    THEN [name |-> name, version |-> version, flavor |-> flavor,
          db |-> DefaultDir]
    ELSE [name |-> "ProductNotFound", version |-> version, flavor |-> flavor,
          db |-> NoDir]

getTaggedProduct(p, name, flavor, tag) ==
    IF flavor \in DOMAIN lookup[p] /\ name \in DOMAIN lookup[p][flavor]
    THEN PF_getTaggedProduct(lookup[p][flavor][name], tag)
    ELSE NoVersion

saveNeeded(p) == Len(updated[p]) > 0

\* ------------------------------------------------------ in-memory updates
\* _flavorsUpdated(flavor): append when not yet listed
flavorUpdated(upd, flavor) ==
    IF InSeq(upd, flavor) THEN upd ELSE Append(upd, flavor)

\* a _flavorsUpdated that forgets to mark the flavors
flavorsUpdatedNot(upd, flavors) == upd

\* _flavorsUpdated(list): extend by those not yet listed (a repeated new
\* flavor of the argument is appended each time it occurs)
flavorsUpdated(upd, flavors) ==
    upd \o SelectSeq(flavors, LAMBDA x : ~InSeq(upd, x))

\* addProduct that registers the family and forgets the version
addToLookupNoVersion(lk, product) ==
    LET flavor == product.flavor
        byName == IF flavor \in DOMAIN lk THEN lk[flavor] ELSE EmptyDict
        fam0 == IF product.name \in DOMAIN byName THEN byName[product.name]
                ELSE NewFamily
    IN  Put(lk, flavor, Put(byName, product.name, fam0))

\* the in-memory part of addProduct
addToLookup(lk, product) ==
    LET flavor == product.flavor
        byName == IF flavor \in DOMAIN lk THEN lk[flavor] ELSE EmptyDict
        fam0 == IF product.name \in DOMAIN byName THEN byName[product.name]
                ELSE NewFamily
        fam1 == PF_addVersion(fam0, product.version)
        fam2 == [fam1 EXCEPT !.tags =
                   [t \in (DOMAIN fam1.tags) \cup product.tags |->
                       IF t \in product.tags THEN product.version
                       ELSE fam1.tags[t]]]
    IN  Put(lk, flavor, Put(byName, product.name, fam2))

\* a removeProduct that leaves the family without versions in place
removeFromLookupKeepFamily(lk, name, flavor, version) ==
    Put(lk, flavor, Put(lk[flavor], name,
                        PF_removeVersion(lk[flavor][name], version)))

\* a removeProduct that removes nothing
removeFromLookupNothing(lk, name, flavor, version) == lk

\* the in-memory part of removeProduct, when the version is there
removeFromLookup(lk, name, flavor, version) ==
    LET fam == PF_removeVersion(lk[flavor][name], version)
    IN  IF fam.versions = {}
        THEN Put(lk, flavor, Del(lk[flavor], name))
        ELSE Put(lk, flavor, Put(lk[flavor], name, fam))

\* _setUserTag
setUserTag(ut, flavor, tag, product, version) ==
    LET byTag == IF flavor \in DOMAIN ut THEN ut[flavor] ELSE EmptyDict
        byProd == IF tag \in DOMAIN byTag THEN byTag[tag] ELSE EmptyDict
    IN  Put(ut, flavor, Put(byTag, tag, Put(byProd, product, version)))

\* _unsetUserTag: the emptied dictionaries stay
unsetUserTag(ut, flavor, tag, product) ==
    IF /\ flavor \in DOMAIN ut
       /\ tag \in DOMAIN ut[flavor]
       /\ product \in DOMAIN ut[flavor][tag]
    THEN Put(ut, flavor, Put(ut[flavor], tag, Del(ut[flavor][tag], product)))
    ELSE ut

\* assignTag that routes a user tag to the overlay only
RECURSIVE assignLoopOverlayOnly(_, _, _, _, _, _, _)
assignLoopOverlayOnly(lk, ut, flavors, tag, product, version, found) ==
    IF flavors = <<>>
    THEN [lookup |-> lk, usertags |-> ut, found |-> found, raised |-> FALSE]
    ELSE LET f == Head(flavors)
         IN  IF f \notin DOMAIN lk \/ product \notin DOMAIN lk[f]
             THEN assignLoopOverlayOnly(lk, ut, Tail(flavors), tag, product,
                                        version, found)
             ELSE IF ~PF_hasVersion(lk[f][product], version)
             THEN [lookup |-> lk, usertags |-> ut, found |-> found,
                   raised |-> TRUE]
             ELSE IF IsUserTag(tag)
             THEN assignLoopOverlayOnly(
                     lk, setUserTag(ut, f, tag, product, version),
                     Tail(flavors), tag, product, version, TRUE)
             ELSE assignLoopOverlayOnly(
                     Put(lk, f, Put(lk[f], product,
                                    PF_assignTag(lk[f][product], tag, version))),
                     ut, Tail(flavors), tag, product, version, TRUE)

\* an assignTag that leaves a tag where it is when the family carries it
RECURSIVE assignLoopKeepFirst(_, _, _, _, _, _, _)
assignLoopKeepFirst(lk, ut, flavors, tag, product, version, found) ==
    IF flavors = <<>>
    THEN [lookup |-> lk, usertags |-> ut, found |-> found, raised |-> FALSE]
    ELSE LET f == Head(flavors)
         IN  IF f \notin DOMAIN lk \/ product \notin DOMAIN lk[f]
             THEN assignLoopKeepFirst(lk, ut, Tail(flavors), tag, product,
                                      version, found)
             ELSE IF ~PF_hasVersion(lk[f][product], version)
             THEN [lookup |-> lk, usertags |-> ut, found |-> found,
                   raised |-> TRUE]
             ELSE IF tag \in DOMAIN lk[f][product].tags
             THEN assignLoopKeepFirst(lk, ut, Tail(flavors), tag, product,
                                      version, TRUE)
             ELSE assignLoopKeepFirst(
                     Put(lk, f, Put(lk[f], product,
                                    PF_assignTag(lk[f][product], tag, version))),
                     IF IsUserTag(tag)
                     THEN setUserTag(ut, f, tag, product, version) ELSE ut,
                     Tail(flavors), tag, product, version, TRUE)

\* the loop of assignTag over the flavors: a flavor without the product is
\* passed (KeyError); a family without the version raises ProductNotFound
\* out of the loop, after the flavors before it were assigned
RECURSIVE assignLoop(_, _, _, _, _, _, _)
assignLoop(lk, ut, flavors, tag, product, version, found) ==
    IF flavors = <<>>
    THEN [lookup |-> lk, usertags |-> ut, found |-> found, raised |-> FALSE]
    ELSE LET f == Head(flavors)
         IN  IF f \notin DOMAIN lk \/ product \notin DOMAIN lk[f]
             THEN assignLoop(lk, ut, Tail(flavors), tag, product, version,
                             found)
             ELSE IF ~PF_hasVersion(lk[f][product], version)
             THEN [lookup |-> lk, usertags |-> ut, found |-> found,
                   raised |-> TRUE]
             ELSE assignLoop(
                     Put(lk, f, Put(lk[f], product,
                                    PF_assignTag(lk[f][product], tag, version))),
                     IF IsUserTag(tag)
                     THEN setUserTag(ut, f, tag, product, version) ELSE ut,
                     Tail(flavors), tag, product, version, TRUE)

\* the loop of unassignTag over the flavors
RECURSIVE unassignLoop(_, _, _, _, _, _, _)
unassignLoop(lk, ut, upd, flavors, tag, product, changed) ==
    IF flavors = <<>>
    THEN [lookup |-> lk, usertags |-> ut, updated |-> upd,
          changed |-> changed]
    ELSE LET f == Head(flavors)
         IN  IF \/ f \notin DOMAIN lk
                \/ product \notin DOMAIN lk[f]
                \/ tag \notin DOMAIN lk[f][product].tags
             THEN unassignLoop(lk, ut, upd, Tail(flavors), tag, product,
                               changed)
             ELSE unassignLoop(
                     Put(lk, f, Put(lk[f], product,
                                    PF_unassignTag(lk[f][product], tag))),
                     IF IsUserTag(tag)
                     THEN unsetUserTag(ut, f, tag, product) ELSE ut,
                     flavorUpdated(upd, f),
                     Tail(flavors), tag, product, TRUE)

\* _saveTag reaches its write for some flavor: the lock is taken on the name
\* "file" before the function binds it, which raises UnboundLocalError
saveTagRaises(p, ut, tag, flavors) ==
    /\ userTagDir[p]
    /\ \E i \in 1..Len(flavors) :
          /\ flavors[i] \in DOMAIN ut
          /\ tag \in DOMAIN ut[flavors[i]]


\* ------------------------------------------------------------ the database
\* Database.isNewerThan(timestamp): changes at or after the time
isNewerThan(timestamp) == dbmtime >= timestamp

\* findProductNames / findProducts: every declared product, in a fixed order
findAllProducts == SetToSeq(db)

\* a freshness test that only looks whether the file is there
cacheIsUpToDateIfPresent(flavor) ==
    persistPath(flavor, NoDir) \in DOMAIN files

\* a freshness test that forgets the `not` of its last line
cacheIsUpToDateUnnegated(flavor) ==
    LET cache == persistPath(flavor, NoDir)
    IN  /\ cache \in DOMAIN files
        /\ isNewerThan(files[cache].mtime)

\* cacheIsUpToDate(flavor)
cacheIsUpToDate(flavor) ==
    LET cache == persistPath(flavor, NoDir)
    IN  /\ cache \in DOMAIN files
        /\ ~isNewerThan(files[cache].mtime)

\* ------------------------------------------------------------ initial state
\* what ups_db declares when a behaviour starts
DeclaredAtStart ==
    {[name |-> "astro", version |-> "1.0", flavor |-> "Linux64",
      tags |-> {GlobalTag}]}

\* the flavor -> name -> family mapping of a set of declared products
RECURSIVE mappingOf(_)
mappingOf(prods) ==
    IF prods = <<>> THEN EmptyDict
    ELSE LET lk == mappingOf(SubSeq(prods, 1, Len(prods) - 1))
             product == prods[Len(prods)]
             flavor == product.flavor
             byName == IF flavor \in DOMAIN lk THEN lk[flavor] ELSE EmptyDict
             fam0 == IF product.name \in DOMAIN byName
                     THEN byName[product.name] ELSE NewFamily
             fam == [versions |-> fam0.versions \cup {product.version},
                     tags |-> [t \in (DOMAIN fam0.tags) \cup product.tags |->
                                 IF t \in product.tags THEN product.version
                                 ELSE fam0.tags[t]]]
         IN  Put(lk, flavor, Put(byName, product.name, fam))

\* the stack that fromCache of every flavor builds from DeclaredAtStart, and
\* the cache files it leaves
StartLookup ==
    LET lk == mappingOf(SetToSeq(DeclaredAtStart))
    IN  [f \in Flavors |-> IF f \in DOMAIN lk THEN lk[f] ELSE EmptyDict]

StartFiles ==
    [x \in {DefaultDir} \X Flavors |->
        [mtime |-> 1, data |-> StartLookup[x[2]]]]

StartLedger == [x \in {DefaultDir} \X Flavors |-> 1]

\* what every start has in common: the database as declared some time ago,
\* no lock held, the stacks' settings, the clock after the caches' time
InitShared(budget) ==
    /\ clock = 2
    /\ tagfiles = EmptyDict
    /\ locks = [x \in Paths |-> Free]
    /\ db = DeclaredAtStart
    /\ dbmtime = 0
    /\ updated = [p \in Procs |-> <<>>]
    /\ usertags = [p \in Procs |-> EmptyDict]
    /\ \E a \in BOOLEAN : autosave = [p \in Procs |-> a]
    /\ \E u \in BOOLEAN : userTagDir = [p \in Procs |-> u]
    /\ ctl = [p \in Procs |-> Idle]
    /\ hist = <<>>
    /\ left = budget

\* no cache on disk, every stack just constructed
InitEmpty(budget) ==
    /\ InitShared(budget)
    /\ files = EmptyDict
    /\ lookup = [p \in Procs |-> EmptyDict]
    /\ modtimes = [p \in Procs |-> EmptyDict]

\* the caches on disk; the stacks of `loaded` were built from them by
\* fromCache, the others were just constructed
InitLoaded(budget, loaded) ==
    /\ InitShared(budget)
    /\ files = StartFiles
    /\ lookup = [p \in Procs |-> IF p \in loaded THEN StartLookup
                                 ELSE EmptyDict]
    /\ modtimes = [p \in Procs |-> IF p \in loaded THEN StartLedger
                                   ELSE EmptyDict]

Init == InitEmpty(MaxOps) \/ InitLoaded(MaxOps, {"p1"})

\* the last operation of process p that ended
lastOp(p) ==
    LET mine == SelectSeq(hist, LAMBDA e : e.proc = p)
    IN  IF mine = <<>> THEN NoOp ELSE mine[Len(mine)]

\* ------------------------------------------------------------ control
\* the operation ends: the process is idle again, the outcome is recorded
Return(p, op, arg, result) ==
    /\ ctl' = [ctl EXCEPT ![p] = Idle]
    /\ hist' = Append(hist, [proc |-> p, op |-> op, arg |-> arg,
                             result |-> result])

\* a top-level call starts
Begin(p) ==
    /\ ctl[p].pc = "idle"
    /\ left > 0
    /\ left' = left - 1

\* the operation goes on into save(flavors, dir) when `saving`, and returns
\* `ret` after it; an empty list of flavors is an empty loop
Proceed(p, op, arg, saving, flavors, dir, ret) ==
    IF saving /\ flavors # <<>>
    THEN /\ ctl' = [ctl EXCEPT ![p] =
                      [Idle EXCEPT !.pc = "check", !.op = op, !.arg = arg,
                                   !.sflav = flavors, !.sdir = dir,
                                   !.ret = ret]]
         /\ UNCHANGED hist
    ELSE Return(p, op, arg, ret)

\* ------------------------------------------------------------ save
\* the test of save with the comparison turned around
outOfSyncReversed(p, file) ==
    /\ file \in DOMAIN modtimes[p]
    /\ modtimes[p][file] > files[file].mtime

\* the test of save before it writes a flavor: the ledger knows the file and
\* the file is newer than the ledger's time
outOfSync(p, file) ==
    /\ file \in DOMAIN modtimes[p]
    /\ modtimes[p][file] < files[file].mtime

\* os.stat(file) of that test raises when the file is gone
statRaises(p, file) ==
    /\ file \in DOMAIN modtimes[p]
    /\ file \notin DOMAIN files

\* the loop of save has ended
SaveDone(p, c, oos) ==
    IF oos # <<>>
    THEN Return(p, c.op, c.arg, "RuntimeError")
    ELSE IF c.loop
    THEN /\ ctl' = [ctl EXCEPT ![p] =
                      [c EXCEPT !.pc = "refresh", !.sflav = <<>>,
                                !.sdir = NoDir, !.oos = <<>>]]
         /\ UNCHANGED hist
    ELSE Return(p, c.op, c.arg, c.ret)

\* save, lines 239-245: the out-of-sync test of the next flavor
SaveCheck(p) ==
    LET c == ctl[p]
        flavor == Head(c.sflav)
        file == persistPath(flavor, c.sdir)
    IN  /\ c.pc = "check"
        /\ UNCHANGED <<clock, diskVars, dbVars, memVars, cfgVars, left>>
        /\ IF statRaises(p, file)
           THEN Return(p, c.op, c.arg, "OSError")
           ELSE IF outOfSync(p, file)
           THEN IF Tail(c.sflav) = <<>>
                THEN SaveDone(p, c, Append(c.oos, flavor))
                ELSE /\ ctl' = [ctl EXCEPT ![p] =
                                  [c EXCEPT !.sflav = Tail(c.sflav),
                                            !.oos = Append(c.oos, flavor)]]
                     /\ UNCHANGED hist
           ELSE /\ ctl' = [ctl EXCEPT ![p] = [c EXCEPT !.pc = "persist"]]
                /\ UNCHANGED hist

\* a persist that dumps the versions and loses the tag assignments
persistedFileUntagged(lk, flavor) ==
    [mtime |-> clock,
     data |-> [n \in DOMAIN lk[flavor] |->
                 [lk[flavor][n] EXCEPT !.tags = EmptyDict]]]

\* what persist writes: the flavor's product mapping, stamped with the time
persistedFile(lk, flavor) == [mtime |-> clock, data |-> lk[flavor]]

\* a save that drops the flavor from the dirty list wherever it wrote
updatedAfterSaveAnywhere(upd, flavor, dir) == FilterOut(upd, flavor)

\* save drops the flavor from the dirty list only without a directory override
updatedAfterSave(upd, flavor, dir) ==
    IF dir = NoDir THEN FilterOut(upd, flavor) ELSE upd

\* a persist that starts every flavor it writes from an empty mapping
persistLookupAnew(lk, flavor) == Put(lk, flavor, EmptyDict)

\* persist, lines 276-277: a flavor that is not registered becomes a key of
\* the lookup, with an empty mapping
persistLookup(lk, flavor) ==
    IF flavor \in DOMAIN lk THEN lk ELSE Put(lk, flavor, EmptyDict)

\* persist (under the file's lock) and the rest of the loop body of save
SavePersist(p) ==
    LET c == ctl[p]
        flavor == Head(c.sflav)
        file == persistPath(flavor, c.sdir)
        lk == persistLookup(lookup[p], flavor)
    IN  /\ c.pc = "persist"
        /\ locks[file] = Free
        /\ lookup' = [lookup EXCEPT ![p] = lk]
        /\ files' = Put(files, file, persistedFile(lk, flavor))
        /\ modtimes' = [modtimes EXCEPT ![p] = Put(@, file, clock)]
        /\ updated' = [updated EXCEPT ![p] =
                         updatedAfterSave(@, flavor, c.sdir)]
        /\ UNCHANGED <<clock, tagfiles, locks, dbVars, usertags, cfgVars, left>>
        /\ IF Tail(c.sflav) = <<>>
           THEN SaveDone(p, c, c.oos)
           ELSE /\ ctl' = [ctl EXCEPT ![p] =
                             [c EXCEPT !.pc = "check", !.sflav = Tail(c.sflav)]]
                /\ UNCHANGED hist

\* save(flavors, dir) called by the user; save(None) saves the dirty flavors
\* to the default directory
Save(p, fa, dir) ==
    LET flavors == IF fa.all THEN updated[p] ELSE fa.list
        d == IF fa.all THEN NoDir ELSE dir
    IN  /\ Begin(p)
        /\ UNCHANGED <<clock, diskVars, dbVars, memVars, cfgVars>>
        /\ Proceed(p, "save", [flavors |-> flavors, dir |-> d], TRUE,
                   flavors, d, "ok")


\* ------------------------------------------------------------ mutations
\* the products a caller may add: tagged or not, and one without a name
AddInputs ==
    {pr \in Products :
        /\ pr.tags \in {{}, {GlobalTag}, {UserTag}}
        /\ pr.name = "" => (pr.version = "1.0" /\ pr.flavor = "Linux"
                            /\ pr.tags = {})}

\* a test that only looks at the name
underSpecifiedNameOnly(product) == product.name = ""

underSpecified(product) ==
    product.name = "" \/ product.version = "" \/ product.flavor = ""

\* addProduct(product)
AddProduct(p, product) ==
    /\ Begin(p)
    /\ UNCHANGED <<clock, diskVars, dbVars, modtimes, usertags, cfgVars>>
    /\ IF underSpecified(product)
       THEN /\ UNCHANGED <<lookup, updated>>
            /\ Return(p, "addProduct", product, "UnderSpecifiedProduct")
       ELSE /\ lookup' = [lookup EXCEPT ![p] = addToLookup(@, product)]
            /\ updated' = [updated EXCEPT ![p] =
                             flavorUpdated(@, product.flavor)]
            /\ Proceed(p, "addProduct", product, autosave[p],
                       <<product.flavor>>, NoDir, "ok")

\* removeProduct(name, flavor, version)
RemoveProduct(p, name, flavor, version) ==
    LET arg == [name |-> name, flavor |-> flavor, version |-> version]
    IN  /\ Begin(p)
        /\ UNCHANGED <<clock, diskVars, dbVars, modtimes, usertags, cfgVars>>
        /\ IF hasProduct(p, name, flavor, version)
           THEN /\ lookup' = [lookup EXCEPT ![p] =
                                removeFromLookup(@, name, flavor, version)]
                /\ updated' = [updated EXCEPT ![p] = flavorUpdated(@, flavor)]
                /\ Proceed(p, "removeProduct", arg, autosave[p], <<flavor>>,
                           NoDir, "True")
           ELSE /\ UNCHANGED <<lookup, updated>>
                /\ Return(p, "removeProduct", arg, "False")

\* assignTag(tag, product, version, flavors)
AssignTag(p, tag, product, version, fa) ==
    LET flavors == IF fa.all THEN getFlavors(p) ELSE fa.list
        arg == [tag |-> tag, name |-> product, version |-> version,
                flavors |-> flavors]
        r == assignLoop(lookup[p], usertags[p], flavors, tag, product,
                        version, FALSE)
    IN  /\ Begin(p)
        /\ UNCHANGED <<clock, diskVars, dbVars, modtimes, cfgVars>>
        /\ lookup' = [lookup EXCEPT ![p] = r.lookup]
        /\ usertags' = [usertags EXCEPT ![p] = r.usertags]
        /\ IF r.raised \/ ~r.found
           THEN /\ UNCHANGED updated
                /\ Return(p, "assignTag", arg, "ProductNotFound")
           ELSE /\ updated' = [updated EXCEPT ![p] = flavorsUpdated(@, flavors)]
                /\ IF autosave[p] /\ IsUserTag(tag)
                   THEN Return(p, "assignTag", arg,
                               IF saveTagRaises(p, r.usertags, tag, flavors)
                               THEN "UnboundLocalError" ELSE "ok")
                   ELSE Proceed(p, "assignTag", arg, autosave[p], flavors,
                                NoDir, "ok")

\* unassignTag(tag, product, flavors)
UnassignTag(p, tag, product, fa) ==
    LET flavors == IF fa.all THEN getFlavors(p) ELSE fa.list
        arg == [tag |-> tag, name |-> product, flavors |-> flavors]
        r == unassignLoop(lookup[p], usertags[p], updated[p], flavors, tag,
                          product, FALSE)
    IN  /\ Begin(p)
        /\ UNCHANGED <<clock, diskVars, dbVars, modtimes, cfgVars>>
        /\ lookup' = [lookup EXCEPT ![p] = r.lookup]
        /\ usertags' = [usertags EXCEPT ![p] = r.usertags]
        /\ updated' = [updated EXCEPT ![p] = r.updated]
        /\ IF ~r.changed
           THEN Return(p, "unassignTag", arg, "False")
           ELSE IF autosave[p] /\ IsUserTag(tag)
           THEN Return(p, "unassignTag", arg,
                       IF saveTagRaises(p, r.usertags, tag, flavors)
                       THEN "UnboundLocalError" ELSE "True")
           ELSE Proceed(p, "unassignTag", arg, autosave[p], flavors, NoDir,
                        "True")

\* an addFlavor that gives the flavor an empty mapping whatever it held
addFlavorAnew(lk, flavor) == Put(lk, flavor, EmptyDict)

\* addFlavor: an empty mapping for a flavor that is not yet a key
addFlavor(lk, flavor) ==
    IF flavor \in DOMAIN lk THEN lk ELSE Put(lk, flavor, EmptyDict)

\* addFlavor(flavor)
AddFlavor(p, flavor) ==
    /\ Begin(p)
    /\ UNCHANGED <<clock, diskVars, dbVars, updated, modtimes, usertags,
                   cfgVars>>
    /\ lookup' = [lookup EXCEPT ![p] = addFlavor(@, flavor)]
    /\ Return(p, "addFlavor", [flavor |-> flavor], "ok")

\* ProductFamily.import_: the versions of the imported mapping are added
PF_import(fam, versions) == [fam EXCEPT !.versions = @ \cup versions]

\* the body of the outer loop of import_ for one flavor: the flavor becomes a
\* key, every product of the flavor is merged into its family, and the
\* flavor is marked once a product was merged
importFlavor(lk, products, flavor) ==
    LET lk1 == addFlavor(lk, flavor)
        old == lk1[flavor]
        new == products[flavor]
    IN  Put(lk1, flavor,
            [n \in DOMAIN old \cup DOMAIN new |->
                IF n \in DOMAIN new
                THEN PF_import(IF n \in DOMAIN old THEN old[n] ELSE NewFamily,
                               new[n])
                ELSE old[n]])

\* the loops of import_ over the flavors of the imported structure
RECURSIVE importLoop(_, _, _, _, _)
importLoop(lk, upd, products, flavors, changed) ==
    IF flavors = <<>>
    THEN [lookup |-> lk, updated |-> upd, changed |-> changed]
    ELSE LET f == Head(flavors)
             some == DOMAIN products[f] # {}
         IN  importLoop(importFlavor(lk, products, f),
                        IF some THEN flavorUpdated(upd, f) ELSE upd,
                        products, Tail(flavors), changed \/ some)

\* import_(products); with autosave and a product merged it ends in save()
Import(p, products) ==
    LET r == importLoop(lookup[p], updated[p], products,
                        SetToSeq(DOMAIN products), FALSE)
    IN  /\ Begin(p)
        /\ UNCHANGED <<clock, diskVars, dbVars, modtimes, usertags, cfgVars>>
        /\ lookup' = [lookup EXCEPT ![p] = r.lookup]
        /\ updated' = [updated EXCEPT ![p] = r.updated]
        /\ Proceed(p, "import_", products, autosave[p] /\ r.changed,
                   r.updated, NoDir, "ok")

\* ------------------------------------------------------------ query calls
\* a query ends: the outcome and the value returned are recorded
ReturnValue(p, op, arg, result, value) ==
    /\ ctl' = [ctl EXCEPT ![p] = Idle]
    /\ hist' = Append(hist, [proc |-> p, op |-> op, arg |-> arg,
                             result |-> result, value |-> value])

\* a call that only reads the stack
Query(p, op, arg, r) ==
    /\ Begin(p)
    /\ UNCHANGED <<clock, diskVars, dbVars, memVars, cfgVars>>
    /\ ReturnValue(p, op, arg, IF r.raises = "none" THEN "ok" ELSE r.raises,
                   r.value)

GetProductNames(p, flavor) ==
    Query(p, "getProductNames", [flavor |-> flavor],
          getProductNames(p, flavor))

GetTags(p, flavor) ==
    Query(p, "getTags", [flavor |-> flavor], getTags(p, flavor))

GetVersions(p, name, flavor) ==
    Query(p, "getVersions", [name |-> name, flavor |-> flavor],
          Gives(getVersions(p, name, flavor)))

HasProduct(p, name, flavor, version) ==
    Query(p, "hasProduct",
          [name |-> name, flavor |-> flavor, version |-> version],
          Gives(hasProduct(p, name, flavor, version)))

GetTaggedProduct(p, name, flavor, tag) ==
    Query(p, "getTaggedProduct", [name |-> name, flavor |-> flavor, tag |-> tag],
          Gives(getTaggedProduct(p, name, flavor, tag)))

\* getProduct(name, version, flavor): the record, or ProductNotFound(name,
\* version, flavor)
GetProduct(p, name, version, flavor) ==
    LET got == getProduct(p, name, version, flavor)
    IN  Query(p, "getProduct",
              [name |-> name, version |-> version, flavor |-> flavor],
              IF got.name = "ProductNotFound"
              THEN [raises |-> "ProductNotFound",
                    value |-> <<name, version, flavor>>]
              ELSE Gives(got))

GetFlavors(p) == Query(p, "getFlavors", <<>>, Gives(getFlavors(p)))

\* cacheIsUpToDate(flavor), called from outside
CacheIsUpToDate(p, flavor) ==
    Query(p, "cacheIsUpToDate", [flavor |-> flavor],
          Gives(cacheIsUpToDate(flavor)))

\* ------------------------------------------------------------ cache files
\* clearCache(flavors, cachedir): without flavors it calls itself with
\* getFlavors(), which never ends when the stack has no flavor
ClearCache(p, fa, dir) ==
    LET flavors == IF fa.all THEN getFlavors(p) ELSE fa.list
        arg == [flavors |-> flavors, dir |-> dir]
        gone == {persistPath(flavors[i], dir) : i \in 1..Len(flavors)}
    IN  /\ Begin(p)
        /\ UNCHANGED <<clock, tagfiles, locks, dbVars, memVars, cfgVars>>
        /\ IF flavors = <<>>
           THEN /\ UNCHANGED files
                /\ Return(p, "clearCache", arg, "RecursionLimit")
           ELSE /\ files' = [x \in (DOMAIN files) \ gone |-> files[x]]
                /\ Return(p, "clearCache", arg, "ok")

\* reload(flavors, prodPersistDir=dir): the loop starts
Reload(p, fa, dir) ==
    LET flavors == IF fa.all THEN findCachedFlavors(persistDirOf(dir))
                   ELSE fa.list
        arg == [flavors |-> flavors, dir |-> dir]
    IN  /\ Begin(p)
        /\ UNCHANGED <<clock, diskVars, dbVars, memVars, cfgVars>>
        /\ IF flavors = <<>>
           THEN Return(p, "reload", arg, "ok")
           ELSE /\ ctl' = [ctl EXCEPT ![p] =
                             [Idle EXCEPT !.pc = "reload", !.op = "reload",
                                          !.arg = arg, !.rflav = flavors,
                                          !.sdir = dir]]
                /\ UNCHANGED hist

\* a reload that adds what the file holds to what the stack holds
replacedMerging(lk, flavor, data) ==
    LET old == IF flavor \in DOMAIN lk THEN lk[flavor] ELSE EmptyDict
    IN  Put(lk, flavor,
            [n \in DOMAIN old \cup DOMAIN data |->
                IF n \in DOMAIN data THEN data[n] ELSE old[n]])

\* self.lookup[flavor] = lookup: the mapping of the flavor replaced wholesale
replaced(lk, flavor, data) == Put(lk, flavor, data)

\* a stat that gives the time of the call instead of the file's time
st_mtimeNow(file) == clock

\* os.stat(file).st_mtime: the modification time the file has on disk
st_mtime(file) == files[file].mtime

\* reload, lines 668-677: one flavor is locked, read and unlocked; os.stat
\* of a missing file raises between _lock and _unlock
ReloadStep(p) ==
    LET c == ctl[p]
        flavor == Head(c.rflav)
        file == persistPath(flavor, c.sdir)
    IN  /\ c.pc = "reload"
        /\ locks[file] = Free
        /\ UNCHANGED <<clock, files, tagfiles, dbVars, updated, usertags,
                       cfgVars, left>>
        /\ IF file \in DOMAIN files
           THEN /\ modtimes' = [modtimes EXCEPT ![p] =
                                  Put(@, file, st_mtime(file))]
                /\ lookup' = [lookup EXCEPT ![p] =
                                replaced(@, flavor, files[file].data)]
                /\ UNCHANGED locks
                /\ IF Tail(c.rflav) = <<>>
                   THEN Return(p, c.op, c.arg, "ok")
                   ELSE /\ ctl' = [ctl EXCEPT ![p] =
                                     [c EXCEPT !.rflav = Tail(c.rflav)]]
                        /\ UNCHANGED hist
           ELSE /\ locks' = [locks EXCEPT ![file] = p]
                /\ UNCHANGED <<lookup, modtimes>>
                /\ Return(p, c.op, c.arg, "OSError")

\* ------------------------------------------------------------ rebuilding
\* refreshFromDatabase: forget, then addProduct of every declared product
RefreshFromDatabase(p) ==
    /\ Begin(p)
    /\ UNCHANGED <<clock, diskVars, dbVars, updated, modtimes, usertags,
                   cfgVars, hist>>
    /\ lookup' = [lookup EXCEPT ![p] = EmptyDict]
    /\ ctl' = [ctl EXCEPT ![p] =
                 [Idle EXCEPT !.pc = "refresh", !.op = "refreshFromDatabase",
                              !.loop = TRUE, !.prods = findAllProducts]]

\* a constructor that fills the new stack from the cache files it finds
NewStackFromCaches(p) ==
    /\ lookup' = [lookup EXCEPT ![p] =
                    [f \in {g \in Flavors : <<DefaultDir, g>> \in DOMAIN files}
                        |-> files[<<DefaultDir, f>>].data]]
    /\ updated' = [updated EXCEPT ![p] = <<>>]
    /\ modtimes' = [modtimes EXCEPT ![p] = EmptyDict]
    /\ usertags' = [usertags EXCEPT ![p] = EmptyDict]

\* ProductStack(...): a new, empty stack
NewStack(p) ==
    /\ lookup' = [lookup EXCEPT ![p] = EmptyDict]
    /\ updated' = [updated EXCEPT ![p] = <<>>]
    /\ modtimes' = [modtimes EXCEPT ![p] = EmptyDict]
    /\ usertags' = [usertags EXCEPT ![p] = EmptyDict]

\* a directory that does not exist
Nowhere == "nowhere"

\* os.path.exists of a directory
exists(path) == path \in Dirs

\* a constructor that tests the directories whatever autosave is
initRaisesAlways(dbpath, userTagPersistDir, prodPersistDir, as) ==
    IF dbpath = "" THEN "RuntimeError"
    ELSE IF ~exists(dbpath) THEN "IOError"
    ELSE IF prodPersistDir # NoDir /\ ~exists(prodPersistDir) THEN "IOError"
    ELSE IF userTagPersistDir # NoDir /\ ~exists(userTagPersistDir)
    THEN "IOError"
    ELSE "none"

\* the tests of __init__: what it raises, if anything
initRaises(dbpath, userTagPersistDir, prodPersistDir, as) ==
    IF dbpath = "" THEN "RuntimeError"
    ELSE IF ~exists(dbpath) THEN "IOError"
    ELSE IF prodPersistDir # NoDir /\ as /\ ~exists(prodPersistDir)
    THEN "IOError"
    ELSE IF userTagPersistDir # NoDir /\ as /\ ~exists(userTagPersistDir)
    THEN "IOError"
    ELSE "none"

\* ProductStack(dbpath, userTagPersistDir, prodPersistDir, autosave): the
\* stack that p holds is replaced by the new one unless __init__ raises. The
\* persist directory of the new stack is not kept in the state: behaviours
\* that construct stacks this way do not save.
Create(p, dbpath, userTagPersistDir, prodPersistDir, as) ==
    LET arg == [dbpath |-> dbpath, userTagPersistDir |-> userTagPersistDir,
                prodPersistDir |-> prodPersistDir, autosave |-> as]
        raises == initRaises(dbpath, userTagPersistDir, prodPersistDir, as)
    IN  /\ Begin(p)
        /\ UNCHANGED <<clock, diskVars, dbVars>>
        /\ IF raises = "none"
           THEN /\ NewStack(p)
                /\ autosave' = [autosave EXCEPT ![p] = as]
                /\ userTagDir' = [userTagDir EXCEPT ![p] =
                                    userTagPersistDir # NoDir]
                /\ Return(p, "__init__", arg, "ok")
           ELSE /\ UNCHANGED <<memVars, cfgVars>>
                /\ Return(p, "__init__", arg, raises)

Construct(p) ==
    /\ Begin(p)
    /\ UNCHANGED <<clock, diskVars, dbVars, cfgVars>>
    /\ NewStack(p)
    /\ Return(p, "ProductStack", EmptyDict, "ok")

\* fromDatabase
FromDatabase(p) ==
    /\ Begin(p)
    /\ UNCHANGED <<clock, diskVars, dbVars, cfgVars, hist>>
    /\ NewStack(p)
    /\ ctl' = [ctl EXCEPT ![p] =
                 [Idle EXCEPT !.pc = "refresh", !.op = "fromDatabase",
                              !.loop = TRUE, !.prods = findAllProducts]]

\* fromCache(flavors, updateCache): reload when every cache tests fresh,
\* else rebuild, mark the flavors and save
FromCache(p, flavors, updateCache) ==
    LET arg == [flavors |-> flavors, updateCache |-> updateCache,
                cacheOkay |->
                    \A i \in 1..Len(flavors) : cacheIsUpToDate(flavors[i])]
    IN  /\ Begin(p)
        /\ UNCHANGED <<clock, diskVars, dbVars, cfgVars, hist>>
        /\ NewStack(p)
        /\ IF arg.cacheOkay
           THEN ctl' = [ctl EXCEPT ![p] =
                          [Idle EXCEPT !.pc = "reload", !.op = "fromCache",
                                       !.arg = arg, !.rflav = flavors]]
           ELSE ctl' = [ctl EXCEPT ![p] =
                          [Idle EXCEPT !.pc = "refresh", !.op = "fromCache",
                                       !.arg = arg, !.loop = TRUE,
                                       !.post = TRUE,
                                       !.prods = findAllProducts]]

\* one turn of the loop of refreshFromDatabase (addProduct of the next
\* product, which saves its flavor under autosave), or what follows the loop
RefreshStep(p) ==
    LET c == ctl[p]
    IN  /\ c.pc = "refresh"
        /\ UNCHANGED <<clock, diskVars, dbVars, modtimes, usertags, cfgVars,
                       left>>
        /\ IF c.prods # <<>>
           THEN LET product == Head(c.prods)
                IN  /\ lookup' = [lookup EXCEPT ![p] = addToLookup(@, product)]
                    /\ updated' = [updated EXCEPT ![p] =
                                     flavorUpdated(@, product.flavor)]
                    /\ ctl' = [ctl EXCEPT ![p] =
                                 IF autosave[p]
                                 THEN [c EXCEPT !.pc = "check",
                                                !.prods = Tail(c.prods),
                                                !.sflav = <<product.flavor>>]
                                 ELSE [c EXCEPT !.prods = Tail(c.prods)]]
                    /\ UNCHANGED hist
           ELSE IF c.post
           THEN LET upd == flavorsUpdated(updated[p], c.arg.flavors)
                IN  /\ updated' = [updated EXCEPT ![p] = upd]
                    /\ UNCHANGED lookup
                    /\ Proceed(p, c.op, c.arg, c.arg.updateCache, upd, NoDir,
                               "ok")
           ELSE /\ UNCHANGED <<lookup, updated>>
                /\ Return(p, c.op, c.arg, "ok")

\* ------------------------------------------------------------ environment
\* an event outside the stacks happens and is recorded
Event(op, arg) ==
    /\ left > 0
    /\ left' = left - 1
    /\ hist' = Append(hist, [proc |-> "env", op |-> op, arg |-> arg,
                             result |-> "ok"])

\* time passes; the stacks only compare time stamps, so a tick matters only
\* when something carries the present time
Tick ==
    /\ clock < MaxClock
    /\ dbmtime = clock \/ \E x \in DOMAIN files : files[x].mtime = clock
    /\ clock' = clock + 1
    /\ UNCHANGED <<diskVars, dbVars, memVars, cfgVars, ctl, hist, left>>

\* someone touches a cache file, which makes it newer than it was: now, or
\* at the next tick of the clock when the file already has the current time
Touch(file) ==
    LET t == IF file \in DOMAIN files /\ files[file].mtime < clock THEN clock
             ELSE clock + 1
    IN  /\ file \in DOMAIN files
        /\ t <= MaxClock
        /\ clock' = t
        /\ files' = [files EXCEPT ![file].mtime = t]
        /\ Event("touch", [file |-> file])
        /\ UNCHANGED <<tagfiles, locks, dbVars, memVars, cfgVars, ctl>>

\* a product is declared in ups_db, or undeclared
DbInputs ==
    {[name |-> "astro", version |-> "1.1", flavor |-> "Linux64", tags |-> {}],
     [name |-> "astro", version |-> "1.0", flavor |-> "Linux64",
      tags |-> {GlobalTag}]}

DbDeclare(product) ==
    /\ product \notin db
    /\ db' = db \cup {product}
    /\ dbmtime' = clock
    /\ Event("declare", product)
    /\ UNCHANGED <<clock, diskVars, memVars, cfgVars, ctl>>

DbUndeclare(product) ==
    /\ product \in db
    /\ db' = db \ {product}
    /\ dbmtime' = clock
    /\ Event("undeclare", product)
    /\ UNCHANGED <<clock, diskVars, memVars, cfgVars, ctl>>

\* ------------------------------------------------------------ behaviours
AllIdle == \A q \in Procs : ctl[q].pc = "idle"

AnyFlavors == [all |-> TRUE, list |-> <<>>]

ListOf(flavors) == [all |-> FALSE, list |-> flavors]

\* the flavors arguments tried: None, one flavor, both in either order
FlavorArgs ==
    {AnyFlavors, ListOf(<<"Linux64">>), ListOf(<<"Linux", "Linux64">>)}

SaveArgs ==
    {<<AnyFlavors, NoDir>>, <<ListOf(<<"Linux64">>), NoDir>>,
     <<ListOf(<<"Linux", "Linux64">>), NoDir>>,
     <<ListOf(<<"Linux64", "Linux">>), NoDir>>,
     <<ListOf(<<"Linux64">>), AltDir>>}

\* the operations of one stack
Call(p) ==
    \/ \E product \in AddInputs : AddProduct(p, product)
    \/ \E n \in Names, f \in Flavors, v \in Versions : RemoveProduct(p, n, f, v)
    \/ \E t \in Tags, n \in Names, v \in Versions, fa \in FlavorArgs :
          AssignTag(p, t, n, v, fa)
    \/ \E t \in Tags, n \in Names, fa \in FlavorArgs : UnassignTag(p, t, n, fa)
    \/ \E a \in SaveArgs : Save(p, a[1], a[2])
    \/ \E fa \in FlavorArgs : ClearCache(p, fa, NoDir)
    \/ \E fa \in FlavorArgs : Reload(p, fa, NoDir)
    \/ RefreshFromDatabase(p)
    \/ Construct(p)

\* the steps inside an operation
Inner(p) ==
    \/ SaveCheck(p)
    \/ SavePersist(p)
    \/ ReloadStep(p)
    \/ RefreshStep(p)

\* one stack and its surroundings: its operations run one at a time, and
\* between them someone touches a cache file
Next ==
    \/ Call("p1")
    \/ Inner("p1")
    \/ AllIdle /\ \E file \in {DefaultDir} \X Flavors : Touch(file)

Spec == Init /\ [][Next]_vars

\* two stacks that both loaded the caches, working at the same time on the
\* flavor Linux64: their steps interleave freely
ConcInputs ==
    {pr \in AddInputs : pr.name # "" /\ pr.flavor = "Linux64" /\ pr.tags = {}}

InitConc == InitLoaded(MaxOps, Procs)

NextConc ==
    \E p \in Procs :
        \/ \E product \in ConcInputs : AddProduct(p, product)
        \/ Save(p, ListOf(<<"Linux64">>), NoDir)
        \/ SaveCheck(p)
        \/ SavePersist(p)

SpecConc == InitConc /\ [][NextConc]_vars

\* one stack changed in memory and asked: products are added (some of them
\* under-specified) and removed, tags assigned, and every query is called
\* with flavors, names and versions the stack may not know
UnderSpecifiedInputs ==
    {[name |-> "", version |-> "1.0", flavor |-> "Linux", tags |-> {}],
     [name |-> "astro", version |-> "", flavor |-> "Linux", tags |-> {}],
     [name |-> "astro", version |-> "1.0", flavor |-> "", tags |-> {}]}

QueryAdds ==
    {pr \in AddInputs : pr.name # "" /\ pr.tags = {}} \cup UnderSpecifiedInputs

FlavorOrNone == Flavors \cup {NoFlavor}

\* the stack has no user-tag directory
InitQuery ==
    /\ InitEmpty(MaxQueryOps) \/ InitLoaded(MaxQueryOps, {"p1"})
    /\ ~userTagDir["p1"]

NextQuery ==
    \/ \E product \in QueryAdds : AddProduct("p1", product)
    \/ \E n \in Names, f \in Flavors, v \in Versions :
          RemoveProduct("p1", n, f, v)
    \/ \E t \in Tags, n \in Names, v \in Versions, fa \in FlavorArgs :
          AssignTag("p1", t, n, v, fa)
    \/ \E f \in FlavorOrNone : GetProductNames("p1", f)
    \/ \E f \in FlavorOrNone : GetTags("p1", f)
    \/ \E n \in Names, f \in FlavorOrNone : GetVersions("p1", n, f)
    \/ \E n \in Names, f \in FlavorOrNone, v \in Versions \cup {NoVersion} :
          HasProduct("p1", n, f, v)
    \/ \E n \in Names, f \in Flavors, t \in Tags :
          GetTaggedProduct("p1", n, f, t)
    \/ \E n \in Names, v \in Versions, f \in Flavors :
          GetProduct("p1", n, v, f)
    \/ SaveCheck("p1")
    \/ SavePersist("p1")

SpecQuery == InitQuery /\ [][NextQuery]_vars

\* the caches and the database: stack p1 is built anew from the caches or
\* from the database while products are declared and undeclared and time
\* passes. One thing happens at a time.
CacheFlavors == {<<"Linux64">>, <<"Linux", "Linux64">>}

InitCache == InitEmpty(MaxCacheOps) \/ InitLoaded(MaxCacheOps, {"p1"})

NextCache ==
    \/ AllIdle /\ FromDatabase("p1")
    \/ AllIdle /\ \E flavors \in CacheFlavors, u \in BOOLEAN :
                      FromCache("p1", flavors, u)
    \/ Inner("p1")
    \/ AllIdle /\ \E product \in DbInputs : DbDeclare(product)
    \/ AllIdle /\ \E product \in DbInputs : DbUndeclare(product)
    \/ AllIdle /\ Tick

SpecCache == InitCache /\ [][NextCache]_vars

\* the round trip: stack p1 is rebuilt from the database and saved while
\* products are declared and undeclared; p2 is the fresh stack that reloads
\* what is on disk. One thing happens at a time.
InitTrip == InitEmpty(MaxTripOps) \/ InitLoaded(MaxTripOps, {"p1"})

NextTrip ==
    \/ AllIdle /\ RefreshFromDatabase("p1")
    \/ AllIdle /\ Save("p1", AnyFlavors, NoDir)
    \/ AllIdle /\ Reload("p2", AnyFlavors, NoDir)
    \/ RefreshStep("p1")
    \/ SaveCheck("p1")
    \/ SavePersist("p1")
    \/ ReloadStep("p2")
    \/ AllIdle /\ \E product \in DbInputs : DbDeclare(product)
    \/ AllIdle /\ \E product \in DbInputs : DbUndeclare(product)

SpecTrip == InitTrip /\ [][NextTrip]_vars

\* the freshness of the caches: stack p1 asks whether a cache is up to date
\* while products are declared and undeclared, cache files are touched or
\* removed and time passes.
InitFresh == InitEmpty(MaxFreshOps) \/ InitLoaded(MaxFreshOps, {"p1"})

NextFresh ==
    \/ \E flavor \in Flavors : CacheIsUpToDate("p1", flavor)
    \/ \E flavor \in Flavors : ClearCache("p1", ListOf(<<flavor>>), NoDir)
    \/ \E file \in {DefaultDir} \X Flavors : Touch(file)
    \/ \E product \in DbInputs : DbDeclare(product)
    \/ \E product \in DbInputs : DbUndeclare(product)
    \/ Tick

SpecFresh == InitFresh /\ [][NextFresh]_vars

\* reloading: stack p1 adds products in memory and reloads flavors from the
\* caches, of the default directory or of another one, while cache files are
\* touched or removed.
ReloadAdds == {pr \in AddInputs : pr.name # "" /\ pr.tags = {}}

InitReload == InitEmpty(MaxReloadOps) \/ InitLoaded(MaxReloadOps, {"p1"})

NextReload ==
    \/ \E product \in ReloadAdds : AddProduct("p1", product)
    \/ \E fa \in FlavorArgs, dir \in {NoDir, AltDir} : Reload("p1", fa, dir)
    \/ ReloadStep("p1")
    \/ SaveCheck("p1")
    \/ SavePersist("p1")
    \/ \E flavor \in Flavors : ClearCache("p1", ListOf(<<flavor>>), NoDir)
    \/ AllIdle /\ \E file \in {DefaultDir} \X Flavors : Touch(file)

SpecReload == InitReload /\ [][NextReload]_vars

\* importing: stack p1 registers flavors and merges structures of products,
\* some with a flavor that has no product, while cache files are touched.
ImportInputs ==
    {[f \in {"Linux"} |-> [n \in {"astro"} |-> {"1.1"}]],
     [f \in {"Linux", "Linux64"} |->
         IF f = "Linux" THEN EmptyDict ELSE [n \in {"astro"} |-> {"1.1"}]],
     [f \in {"Linux"} |-> EmptyDict],
     EmptyDict}

InitImport == InitEmpty(MaxImportOps) \/ InitLoaded(MaxImportOps, {"p1"})

NextImport ==
    \/ \E products \in ImportInputs : Import("p1", products)
    \/ \E flavor \in Flavors : AddFlavor("p1", flavor)
    \/ GetFlavors("p1")
    \/ Save("p1", AnyFlavors, NoDir)
    \/ SaveCheck("p1")
    \/ SavePersist("p1")
    \/ AllIdle /\ \E file \in {DefaultDir} \X Flavors : Touch(file)

SpecImport == InitImport /\ [][NextImport]_vars

\* constructing: stacks are constructed with database paths and directories
\* that exist or not, flavors are registered and listed.
InitInit == InitEmpty(MaxInitOps) \/ InitLoaded(MaxInitOps, {"p1"})

\* the configurations tried: every combination of directories with the
\* database path that exists, none with one that does not
InitInputs ==
    {a \in [dbpath : {"", DefaultDir, Nowhere},
            userTagPersistDir : {NoDir, AltDir, Nowhere},
            prodPersistDir : {NoDir, DefaultDir, Nowhere},
            autosave : BOOLEAN] :
        a.dbpath # DefaultDir
            => a.userTagPersistDir = NoDir /\ a.prodPersistDir = NoDir}

NextInit ==
    \/ \E a \in InitInputs :
          Create("p1", a.dbpath, a.userTagPersistDir, a.prodPersistDir,
                 a.autosave)
    \/ \E flavor \in Flavors : AddFlavor("p1", flavor)
    \/ GetFlavors("p1")

SpecInit == InitInit /\ [][NextInit]_vars

\* saving: stack p1 adds products and saves flavors, registered or not, to
\* the default directory or to another one, while cache files are removed
\* or touched.
InitSave == InitEmpty(MaxSaveOps) \/ InitLoaded(MaxSaveOps, {"p1"})

NextSave ==
    \/ \E product \in ReloadAdds : AddProduct("p1", product)
    \/ \E a \in SaveArgs : Save("p1", a[1], a[2])
    \/ SaveCheck("p1")
    \/ SavePersist("p1")
    \/ \E flavor \in Flavors : ClearCache("p1", ListOf(<<flavor>>), NoDir)
    \/ AllIdle /\ \E file \in {DefaultDir} \X Flavors : Touch(file)

SpecSave == InitSave /\ [][NextSave]_vars

\* the ledger: two stacks that both loaded the caches add products to
\* Linux64, save, reload and clear its cache file in any interleaving, while
\* someone touches the file
MaxLedgerOps == 3

LedgerFlavor == "Linux64"

InitLedger == InitLoaded(MaxLedgerOps, Procs)

NextLedger ==
    \/ \E p \in Procs :
          \/ \E product \in ConcInputs : AddProduct(p, product)
          \/ Save(p, ListOf(<<LedgerFlavor>>), NoDir)
          \/ SaveCheck(p)
          \/ SavePersist(p)
          \/ Reload(p, ListOf(<<LedgerFlavor>>), NoDir)
          \/ ReloadStep(p)
          \/ ClearCache(p, ListOf(<<LedgerFlavor>>), NoDir)
    \/ Touch(<<DefaultDir, LedgerFlavor>>)

SpecLedger == InitLedger /\ [][NextLedger]_vars

\* ------------------------------------------------------------ properties
Last == hist[Len(hist)]

\* the events of process p after the i-th
After(i) == (i + 1)..Len(hist)

\* the file is newer than what the ledger of p recorded for it
NewerThanLedger(p, file) ==
    /\ file \in DOMAIN modtimes[p]
    /\ file \in DOMAIN files
    /\ modtimes[p][file] < files[file].mtime

\* C2: when a flavor's cache file got a newer modification time after the
\* stack loaded it, the step of save that looks at that flavor leaves every
\* file as it is and skips the flavor; a save that requests exactly that
\* flavor ends there, raising the consistency error (RuntimeError).
C2_StaleFileIsNotOverwritten ==
    [][\A p \in Procs :
         LET c == ctl[p]
             flavor == Head(c.sflav)
             file == persistPath(flavor, c.sdir)
         IN  (/\ c.pc \in {"check", "persist"}
              /\ ctl'[p] # c
              /\ NewerThanLedger(p, file))
             => /\ files' = files
                /\ IF Tail(c.sflav) = <<>>
                   THEN /\ ctl'[p].pc = "idle"
                        /\ hist' = Append(hist, [proc |-> p, op |-> c.op,
                                                 arg |-> c.arg,
                                                 result |-> "RuntimeError"])
                   ELSE /\ ctl'[p].pc = "check"
                        /\ ctl'[p].oos = Append(c.oos, flavor)]_vars

\* C2 happens: a file was touched and a save of that flavor then raised
C2_Witness ==
    \E i \in 1..Len(hist) : \E j \in After(i) :
        /\ hist[i].op = "touch"
        /\ hist[j].op = "save"
        /\ hist[j].arg.flavors = <<hist[i].arg.file[2]>>
        /\ hist[j].result = "RuntimeError"
        /\ files[hist[i].arg.file].data = StartFiles[hist[i].arg.file].data

\* C3: a process that is not inside an operation holds no lock: the lock a
\* save or a reload took was released when the operation returned or raised.
C3_NoLockHeldAfterwards ==
    \A p \in Procs :
        ctl[p].pc = "idle" => \A file \in Paths : locks[file] # p

\* C4: with autosave enabled, no global snapshot file carries a user-scoped
\* tag and no user-tag file is one of a global tag.
C4_ScopesStayApart ==
    (\A p \in Procs : autosave[p]) =>
        /\ \A file \in DOMAIN files :
              \A n \in DOMAIN files[file].data :
                  \A t \in DOMAIN files[file].data[n].tags : ~IsUserTag(t)
        /\ \A x \in DOMAIN tagfiles : IsUserTag(x[2])

\* the event takes the product (name, flavor, version) out of the stack of p,
\* or replaces the flavor's content
Forgets(e, p, name, flavor, version) ==
    /\ e.proc = p
    /\ \/ e.op \in {"refreshFromDatabase", "fromDatabase", "fromCache",
                    "ProductStack"}
       \/ e.op = "reload" /\ InSeq(e.arg.flavors, flavor)
       \/ /\ e.op = "removeProduct"
          /\ e.arg.name = name
          /\ e.arg.flavor = flavor
          /\ e.arg.version = version

\* C5: after addProduct(p) succeeded, and until the version is removed or
\* the flavor is reloaded or rebuilt, getProduct(n, v, f) returns a record
\* with that name, version and flavor, and hasProduct(n, f, v) is true.
C5_AddedProductIsFound ==
    \A p \in Procs :
        ctl[p].pc = "idle" =>
            \A i \in 1..Len(hist) :
                LET e == hist[i]
                IN  (/\ e.proc = p
                     /\ e.op = "addProduct"
                     /\ e.result = "ok"
                     /\ \A j \in After(i) :
                           ~Forgets(hist[j], p, e.arg.name, e.arg.flavor,
                                    e.arg.version))
                    => /\ hasProduct(p, e.arg.name, e.arg.flavor,
                                     e.arg.version)
                       /\ LET got == getProduct(p, e.arg.name, e.arg.version,
                                                e.arg.flavor)
                          IN  /\ got.name = e.arg.name
                              /\ got.version = e.arg.version
                              /\ got.flavor = e.arg.flavor

\* C5 happens: a product was added, another operation of the stack followed
\* that does not forget it, and the stack is idle
C5_Witness ==
    /\ Len(hist) >= 2
    /\ hist[1].op = "addProduct"
    /\ hist[1].result = "ok"
    /\ hist[1].arg.version = "1.1"
    /\ hist[2].proc = hist[1].proc
    /\ hist[2].op \in {"assignTag", "removeProduct", "save"}
    /\ ~Forgets(hist[2], hist[1].proc, hist[1].arg.name, hist[1].arg.flavor,
                hist[1].arg.version)
    /\ ctl[hist[1].proc].pc = "idle"

\* C6: when the last operation of an idle stack is an assignTag that
\* succeeded, getTaggedProduct answers the assigned version in every target
\* flavor that holds the product (there is one), and when it is an
\* unassignTag that returned, it answers the not-found value in every target
\* flavor; this is so for a user-scoped tag as for a global one.
C6_TagLookupFollowsAssignment ==
    \A p \in Procs :
        LET e == lastOp(p)
        IN  ctl[p].pc = "idle" =>
            /\ (e.op = "assignTag" /\ e.result = "ok") =>
                  /\ \A i \in 1..Len(e.arg.flavors) :
                        LET f == e.arg.flavors[i]
                        IN  (f \in DOMAIN lookup[p]
                             /\ e.arg.name \in DOMAIN lookup[p][f])
                            => getTaggedProduct(p, e.arg.name, f, e.arg.tag)
                                   = e.arg.version
                  /\ \E i \in 1..Len(e.arg.flavors) :
                        getTaggedProduct(p, e.arg.name, e.arg.flavors[i],
                                         e.arg.tag) = e.arg.version
            /\ (e.op = "unassignTag" /\ e.result \in {"True", "False"}) =>
                  \A i \in 1..Len(e.arg.flavors) :
                      getTaggedProduct(p, e.arg.name, e.arg.flavors[i],
                                       e.arg.tag) = NoVersion

\* C6 happens: a user-scoped tag was assigned with success, to a version that
\* did not carry it
C6_Witness ==
    \E p \in Procs :
        /\ ctl[p].pc = "idle"
        /\ lastOp(p).op = "assignTag"
        /\ lastOp(p).result = "ok"
        /\ IsUserTag(lastOp(p).arg.tag)
        /\ lastOp(p).arg.version = "1.1"
        /\ getTaggedProduct(p, "astro", "Linux64", UserTag) = "1.1"

\* the flavor is as save leaves it when it wrote it
Written(p, flavor) ==
    LET file == persistPath(flavor, NoDir)
    IN  /\ file \in DOMAIN files
        /\ flavor \in DOMAIN lookup[p]
        /\ files[file].data = lookup[p][flavor]
        /\ file \in DOMAIN modtimes[p]
        /\ modtimes[p][file] = files[file].mtime
        /\ ~InSeq(updated[p], flavor)

\* C10: right after save(flavors) ended, every requested flavor was either
\* written (and is no longer dirty) or is out of sync (its file newer than
\* the ledger), and the consistency error is the outcome exactly when some
\* requested flavor is out of sync.
C10_SaveAttemptsEveryFlavor ==
    (AllIdle /\ Len(hist) > 0 /\ Last.op = "save" /\ Last.arg.dir = NoDir) =>
        LET p == Last.proc
            flavors == Last.arg.flavors
            stale == {i \in 1..Len(flavors) :
                        NewerThanLedger(p, persistPath(flavors[i], NoDir))}
        IN  /\ \A i \in 1..Len(flavors) :
                  i \in stale \/ Written(p, flavors[i])
            /\ Last.result = (IF stale = {} THEN "ok" ELSE "RuntimeError")


\* C1: a stack never writes a cache file that is newer than its ledger says,
\* that is, one that another process wrote after this stack last loaded or
\* saved it: no step of persist is taken on such a file.
C1_NoLostUpdate ==
    [][\A p \in Procs :
         LET c == ctl[p]
             file == persistPath(Head(c.sflav), c.sdir)
         IN  (c.pc = "persist" /\ ctl'[p] # c) => ~NewerThanLedger(p, file)]_vars

\* the last three events are refreshFromDatabase and save() of the stack p1,
\* both without an error, and then reload() of the stack p2, which did
\* nothing before; nothing else has started
TripDone ==
    LET n == Len(hist)
    IN  /\ AllIdle
        /\ n >= 3
        /\ hist[n - 2].proc = "p1" /\ hist[n - 2].op = "refreshFromDatabase"
        /\ hist[n - 2].result = "ok"
        /\ hist[n - 1].proc = "p1" /\ hist[n - 1].op = "save"
        /\ hist[n - 1].result = "ok"
        /\ hist[n].proc = "p2" /\ hist[n].op = "reload"
        /\ hist[n].result = "ok"
        /\ \A j \in 1..(n - 1) : hist[j].proc # "p2"

\* C7 as stated: after the round trip the fresh stack's mapping is identical
\* to the first stack's.
C7_RoundTripIdentical == TripDone => lookup["p2"] = lookup["p1"]

\* C7: after refreshFromDatabase and save() on p1 and reload() on the fresh
\* stack p2, p2 holds every flavor that p1 holds, with an identical
\* name -> version -> tag mapping (p2 may hold more flavors: those of the
\* cache files that were on disk before and that p1 no longer has).
C7_RoundTripAgrees ==
    TripDone =>
        \A f \in DOMAIN lookup["p1"] :
            f \in DOMAIN lookup["p2"] /\ lookup["p2"][f] = lookup["p1"][f]

\* C7 happens: the round trip carried a product declared meanwhile, next to
\* a tagged one
C7_Witness ==
    /\ TripDone
    /\ hasProduct("p1", "astro", "Linux64", "1.1")
    /\ hasProduct("p2", "astro", "Linux64", "1.1")
    /\ getTaggedProduct("p2", "astro", "Linux64", GlobalTag) = "1.0"

\* the time stamps say that the flavor's cache is there and newer than the
\* last change of the database
Fresh(flavor) ==
    LET file == persistPath(flavor, NoDir)
    IN  file \in DOMAIN files /\ files[file].mtime > dbmtime

\* the last thing that happened is a fromCache that did not find every
\* requested cache fresh
RebuiltLast ==
    /\ Len(hist) > 0
    /\ Last.op = "fromCache"
    /\ Last.result = "ok"
    /\ ~Last.arg.cacheOkay

\* process q starts a fromCache of the flavors of the last event
SecondBegins(q) ==
    /\ ctl[q].pc = "idle"
    /\ ctl'[q].pc # "idle"
    /\ ctl'[q].op = "fromCache"
    /\ ctl'[q].arg.flavors = Last.arg.flavors

\* the second fromCache finds the files of every requested flavor, tests
\* them fresh and reloads
SecondReloads(q) ==
    /\ \A i \in 1..Len(Last.arg.flavors) :
          persistPath(Last.arg.flavors[i], NoDir) \in DOMAIN files
    /\ ctl'[q].arg.cacheOkay
    /\ ctl'[q].pc = "reload"

\* C8 as stated: a fromCache that follows, with nothing in between, a
\* fromCache of the same flavors that had to rebuild, finds the cache files
\* written and fresh and reloads them.
C8_SecondFromCacheReloads ==
    [][\A q \in Procs :
         (RebuiltLast /\ SecondBegins(q)) => SecondReloads(q)]_vars

\* C8: the same, when the first fromCache had cache updating enabled and the
\* database did not change at or after the time it wrote the caches.
C8_SecondFromCacheReloadsIfUpdated ==
    [][\A q \in Procs :
         (/\ RebuiltLast
          /\ Last.arg.updateCache
          /\ SecondBegins(q)
          /\ \A i \in 1..Len(Last.arg.flavors) :
                LET file == persistPath(Last.arg.flavors[i], NoDir)
                IN  file \in DOMAIN files => dbmtime < files[file].mtime)
         => SecondReloads(q)]_vars

\* C8 happens: there was no cache file, the first fromCache rebuilt and wrote
\* the one of Linux64, the second found it fresh
C8_Witness ==
    /\ Len(hist) = 2
    /\ hist[1].op = "fromCache" /\ hist[2].op = "fromCache"
    /\ hist[1].arg.flavors = <<"Linux64">>
    /\ hist[2].arg.flavors = <<"Linux64">>
    /\ ~hist[1].arg.cacheOkay
    /\ hist[1].arg.updateCache
    /\ hist[2].arg.cacheOkay
    /\ DOMAIN files = {<<DefaultDir, "Linux64">>}
    /\ hasProduct("p1", "astro", "Linux64", "1.0")

\* the stack of p holds what the database declares, and nothing else
HoldsDatabase(p) ==
    /\ \A product \in db :
          /\ hasProduct(p, product.name, product.flavor, product.version)
          /\ \A t \in product.tags :
                getTaggedProduct(p, product.name, product.flavor, t)
                    = product.version
    /\ \A f \in DOMAIN lookup[p] : \A n \in DOMAIN lookup[p][f] :
          /\ \A v \in lookup[p][f][n].versions :
                \E product \in db : /\ product.name = n
                                    /\ product.flavor = f
                                    /\ product.version = v
          /\ \A t \in DOMAIN lookup[p][f][n].tags :
                \E product \in db : /\ product.name = n
                                    /\ product.flavor = f
                                    /\ product.version = lookup[p][f][n].tags[t]
                                    /\ t \in product.tags

\* fromCache decides by the freshness of every requested flavor
C9_Decision ==
    \A q \in Procs :
        (ctl[q].pc = "idle" /\ ctl'[q].pc # "idle" /\ ctl'[q].op = "fromCache")
        => LET flavors == ctl'[q].arg.flavors
               fresh == \A i \in 1..Len(flavors) : Fresh(flavors[i])
           IN  /\ ctl'[q].arg.cacheOkay = fresh
               /\ lookup'[q] = EmptyDict
               /\ IF fresh
                  THEN ctl'[q].pc = "reload" /\ ctl'[q].rflav = flavors
                  ELSE ctl'[q].pc = "refresh"

\* what a fromCache leaves when it is the last thing that happened and
\* nothing else has started
C9_Outcome ==
    (AllIdle /\ Len(hist) > 0 /\ Last.op = "fromCache") =>
        LET p == Last.proc
            flavors == Last.arg.flavors
        IN  /\ Last.result = "ok"
            /\ IF Last.arg.cacheOkay
               THEN /\ DOMAIN lookup[p] = SeqToSet(flavors)
                    /\ \A f \in DOMAIN lookup[p] :
                          lookup[p][f] = files[persistPath(f, NoDir)].data
                    /\ updated[p] = <<>>
               ELSE /\ HoldsDatabase(p)
                    /\ IF Last.arg.updateCache
                       THEN /\ updated[p] = <<>>
                            /\ \A i \in 1..Len(flavors) :
                                  Written(p, flavors[i])
                       ELSE \A i \in 1..Len(flavors) :
                                InSeq(updated[p], flavors[i])

\* C9: fromCache reloads the requested flavors exactly when every one of
\* them tests fresh (its file is there and newer than the database's last
\* change); otherwise it rebuilds the stack from the database and leaves
\* every requested flavor dirty, or, with cache updating enabled, written
\* and no flavor dirty.
C9_FromCacheReloadsOrRebuilds == []C9_Outcome /\ [][C9_Decision]_vars

\* C9 happens: a declaration made the caches stale, fromCache rebuilt and
\* wrote them
C9_Witness ==
    /\ Len(hist) = 2
    /\ hist[1].op = "declare"
    /\ hist[2].op = "fromCache"
    /\ ~hist[2].arg.cacheOkay
    /\ hist[2].arg.updateCache
    /\ hist[2].arg.flavors = <<"Linux", "Linux64">>
    /\ DOMAIN StartFiles \subseteq DOMAIN files
    /\ hasProduct("p1", "astro", "Linux64", "1.1")


\* process p starts the operation op in this step
Starts(p, op) ==
    /\ ctl[p].pc = "idle"
    /\ \/ ctl'[p].op = op
       \/ /\ Len(hist') = Len(hist) + 1
          /\ hist'[Len(hist')].proc = p
          /\ hist'[Len(hist')].op = op

\* the arguments of the operation that starts
ArgOf(p, op) == IF ctl'[p].op = op THEN ctl'[p].arg ELSE hist'[Len(hist')].arg

\* the operation that starts ends in the same step with this result
EndsAtOnce(p, op, result) ==
    hist' = Append(hist, [proc |-> p, op |-> op, arg |-> ArgOf(p, op),
                          result |-> result])

\* the stack of p holds this version of the product in this flavor
Registered(p, name, flavor, version) ==
    /\ flavor \in DOMAIN lookup[p]
    /\ name \in DOMAIN lookup[p][flavor]
    /\ version \in lookup[p][flavor][name].versions

\* the same of the stack after the step
RegisteredAfter(p, name, flavor, version) ==
    /\ flavor \in DOMAIN lookup'[p]
    /\ name \in DOMAIN lookup'[p][flavor]
    /\ version \in lookup'[p][flavor][name].versions

\* C11: a removeProduct(name, flavor, version) of the only version the
\* (flavor, name) family holds leaves the flavor registered and the name out
\* of it: getProductNames(flavor) does not list the name and
\* hasProduct(name, flavor) is false.
C11_LastVersionDropsFamily ==
    [][\A p \in Procs :
         Starts(p, "removeProduct") =>
             LET a == ArgOf(p, "removeProduct")
             IN  (/\ Registered(p, a.name, a.flavor, a.version)
                  /\ lookup[p][a.flavor][a.name].versions = {a.version})
                 => /\ a.flavor \in DOMAIN lookup'[p]
                    /\ a.name \notin DOMAIN lookup'[p][a.flavor]
                    /\ \A v \in Versions :
                           ~RegisteredAfter(p, a.name, a.flavor, v)]_vars

\* C11 happens: the only version of astro in Linux64 was removed
C11_Witness ==
    /\ AllIdle
    /\ Len(hist) > 0
    /\ Last.op = "removeProduct"
    /\ Last.result = "True"
    /\ Last.arg.flavor = "Linux64"
    /\ "Linux64" \in DOMAIN lookup[Last.proc]
    /\ ~hasProduct(Last.proc, "astro", "Linux64", NoVersion)

\* C12: an addProduct of a product with an empty name, version or flavor
\* ends at once with UnderSpecifiedProduct, and the lookup, the dirty list,
\* the ledger, the user-tag overlay and the files are as before.
C12_UnderSpecifiedChangesNothing ==
    [][\A p \in Procs :
         (/\ Starts(p, "addProduct")
          /\ \/ ArgOf(p, "addProduct").name = ""
             \/ ArgOf(p, "addProduct").version = ""
             \/ ArgOf(p, "addProduct").flavor = "")
         => /\ EndsAtOnce(p, "addProduct", "UnderSpecifiedProduct")
            /\ UNCHANGED <<lookup, updated, modtimes, usertags, files,
                           tagfiles, locks>>]_vars

\* C12 happens: a product without a version was refused by a stack that
\* holds products
C12_Witness ==
    /\ Len(hist) > 0
    /\ Last.op = "addProduct"
    /\ Last.arg.version = ""
    /\ Last.result = "UnderSpecifiedProduct"
    /\ hasProduct(Last.proc, "astro", NoFlavor, NoVersion)

\* C14: a removeProduct of a version that is not registered (unknown
\* flavor, product or version) ends at once returning False, and the lookup,
\* the dirty list and the files are as before; when the version is
\* registered it is removed and the call returns True unless its save raises.
C14_RemoveOfUnknownReturnsFalse ==
    [][\A p \in Procs :
         Starts(p, "removeProduct") =>
             LET a == ArgOf(p, "removeProduct")
             IN  IF ~Registered(p, a.name, a.flavor, a.version)
                 THEN /\ EndsAtOnce(p, "removeProduct", "False")
                      /\ UNCHANGED <<lookup, updated, modtimes, usertags,
                                     files, tagfiles, locks>>
                 ELSE /\ ~RegisteredAfter(p, a.name, a.flavor, a.version)
                      /\ \/ EndsAtOnce(p, "removeProduct", "True")
                         \/ hist' = hist /\ ctl'[p].ret = "True"]_vars

\* C14 happens: astro was removed from a flavor that the stack knows and
\* that holds no astro
C14_Witness ==
    /\ Len(hist) > 0
    /\ Last.op = "removeProduct"
    /\ Last.result = "False"
    /\ Last.arg.flavor \in DOMAIN lookup[Last.proc]
    /\ Last.arg.name \notin DOMAIN lookup[Last.proc][Last.arg.flavor]

\* no flavor of the list holds the product in the stack of p
NoneContains(p, flavors, name) ==
    \A i \in 1..Len(flavors) :
        ~(/\ flavors[i] \in DOMAIN lookup[p]
          /\ name \in DOMAIN lookup[p][flavors[i]])

\* C13: assignTag fails with ProductNotFound exactly when none of the target
\* flavors (every known flavor when flavors is omitted) contains the product,
\* and a failed assignTag leaves lookup, user-tag overlay, dirty list and
\* files as they were.
C13_AssignTagFailsOnlyWhenProductAbsent ==
    [][\A p \in Procs :
         Starts(p, "assignTag") =>
             LET a == ArgOf(p, "assignTag")
                 fails == EndsAtOnce(p, "assignTag", "ProductNotFound")
             IN  /\ fails <=> NoneContains(p, a.flavors, a.name)
                 /\ fails => UNCHANGED <<lookup, usertags, updated, files,
                                         tagfiles>>]_vars

\* the stack of p holds the product in this flavor
Contains(p, name, flavor) ==
    flavor \in DOMAIN lookup[p] /\ name \in DOMAIN lookup[p][flavor]

\* the event of the query that starts and ends in this step
Answer == hist'[Len(hist')]

\* C15: a read-only query of a flavor, product or version that is not
\* registered returns its empty value and never raises: getProductNames and
\* getTags of an unknown flavor return nothing, getVersions an empty list,
\* hasProduct false, getTaggedProduct the sentinel.
C15_QueriesOfUnknownReturnEmpty ==
    [][\A p \in Procs :
         /\ Starts(p, "getProductNames") =>
               /\ Answer.result = "ok"
               /\ Answer.arg.flavor \notin DOMAIN lookup[p] \cup {NoFlavor}
                     => Answer.value = {}
         /\ Starts(p, "getTags") =>
               /\ Answer.result = "ok"
               /\ Answer.arg.flavor \notin DOMAIN lookup[p] \cup {NoFlavor}
                     => Answer.value = {}
         /\ Starts(p, "getVersions") =>
               /\ Answer.result = "ok"
               /\ (/\ Answer.arg.flavor # NoFlavor
                   /\ ~Contains(p, Answer.arg.name, Answer.arg.flavor))
                     => Answer.value = <<>>
         /\ Starts(p, "hasProduct") =>
               /\ Answer.result = "ok"
               /\ (/\ Answer.arg.flavor # NoFlavor
                   /\ ~Contains(p, Answer.arg.name, Answer.arg.flavor))
                     => Answer.value = FALSE
               /\ (/\ Answer.arg.flavor # NoFlavor
                   /\ Answer.arg.version # NoVersion
                   /\ ~Registered(p, Answer.arg.name, Answer.arg.flavor,
                                  Answer.arg.version))
                     => Answer.value = FALSE
         /\ Starts(p, "getTaggedProduct") =>
               /\ Answer.result = "ok"
               /\ ~Contains(p, Answer.arg.name, Answer.arg.flavor)
                     => Answer.value = NoVersion]_vars

\* the versions of the product over the flavors that register it
VersionsAnywhere(p, name) ==
    UNION {lookup[p][f][name].versions :
             f \in {g \in DOMAIN lookup[p] : name \in DOMAIN lookup[p][g]}}

\* the list is in the order of list.sort() and repeats nothing
SortedNoDuplicates(lis) ==
    \A i, j \in 1..Len(lis) : i < j => sortRank[lis[i]] < sortRank[lis[j]]

\* C16: getVersions(name) with the flavor omitted returns the sorted union,
\* without duplicates, of the versions over the flavors that register the
\* name; a flavor that does not register it contributes nothing and does not
\* empty the result, which is non-empty exactly when hasProduct(name) holds.
C16_VersionsOverAllFlavors ==
    [][\A p \in Procs :
         (Starts(p, "getVersions") /\ Answer.arg.flavor = NoFlavor) =>
             /\ Answer.result = "ok"
             /\ SortedNoDuplicates(Answer.value)
             /\ SeqToSet(Answer.value) = VersionsAnywhere(p, Answer.arg.name)
             /\ Answer.value # <<>>
                   <=> hasProduct(p, Answer.arg.name, NoFlavor, NoVersion)]_vars

\* C17: getProduct(name, version, flavor) of a flavor, product or version
\* that is not registered fails with ProductNotFound(name, version, flavor)
\* and changes nothing of the stack or the files.
C17_GetProductOfUnknownFails ==
    [][\A p \in Procs :
         (/\ Starts(p, "getProduct")
          /\ ~Registered(p, Answer.arg.name, Answer.arg.flavor,
                         Answer.arg.version))
         => /\ Answer.result = "ProductNotFound"
            /\ Answer.value = <<Answer.arg.name, Answer.arg.version,
                                Answer.arg.flavor>>
            /\ UNCHANGED <<lookup, updated, modtimes, usertags, files,
                           tagfiles, locks>>]_vars

\* C17 happens: the product is registered in the flavor, the version is not
C17_Witness ==
    /\ Len(hist) > 0
    /\ Last.op = "getProduct"
    /\ Last.result = "ProductNotFound"
    /\ Contains(Last.proc, Last.arg.name, Last.arg.flavor)
    /\ ~Registered(Last.proc, Last.arg.name, Last.arg.flavor,
                   Last.arg.version)

\* C18: cacheIsUpToDate(flavor) is false when the flavor's cache file is
\* absent or the database changed at or after the file's modification time,
\* true otherwise, and it changes no state and no file.
C18_FreshnessTest ==
    [][\A p \in Procs :
         Starts(p, "cacheIsUpToDate") =>
             LET cache == <<DefaultDir, Answer.arg.flavor>>
             IN  /\ Answer.result = "ok"
                 /\ Answer.value =
                       IF cache \notin DOMAIN files THEN FALSE
                       ELSE IF dbmtime >= files[cache].mtime THEN FALSE
                       ELSE TRUE
                 /\ UNCHANGED <<clock, diskVars, dbVars, memVars, cfgVars>>]_vars

\* C18 happens: the database changed at the very time of the file, and the
\* file counts as out of date
C18_Witness ==
    /\ Len(hist) > 0
    /\ Last.op = "cacheIsUpToDate"
    /\ Last.value = FALSE
    /\ <<DefaultDir, Last.arg.flavor>> \in DOMAIN files
    /\ dbmtime = files[<<DefaultDir, Last.arg.flavor>>].mtime

\* after a reload that ended well, with nothing done since, every requested
\* flavor holds what its cache file holds and the ledger has the file's time
ReloadedAsOnDisk ==
    (AllIdle /\ Len(hist) > 0 /\ Last.op = "reload" /\ Last.result = "ok") =>
        \A i \in 1..Len(Last.arg.flavors) :
            LET flavor == Last.arg.flavors[i]
                file == persistPath(flavor, Last.arg.dir)
            IN  /\ file \in DOMAIN files
                /\ flavor \in DOMAIN lookup[Last.proc]
                /\ lookup[Last.proc][flavor] = files[file].data
                /\ file \in DOMAIN modtimes[Last.proc]
                /\ modtimes[Last.proc][file] = files[file].mtime

\* a step of a reload leaves the flavors that were not requested as they were
ReloadKeepsOtherFlavors ==
    \A p \in Procs :
        (ctl[p].pc = "reload" \/ Starts(p, "reload")) =>
            \A g \in Flavors \ SeqToSet(ArgOf(p, "reload").flavors) :
                /\ g \in DOMAIN lookup'[p] <=> g \in DOMAIN lookup[p]
                /\ g \in DOMAIN lookup[p] => lookup'[p][g] = lookup[p][g]

\* C19: reload(flavors) replaces the mapping of each requested flavor with
\* exactly the content of its cache file and records the file's modification
\* time in the ledger; the mappings of the other flavors are unchanged.
C19_ReloadReplacesRequestedFlavors ==
    []ReloadedAsOnDisk /\ [][ReloadKeepsOtherFlavors]_vars

\* C19 happens: a product added in memory only is gone after the reload of
\* its flavor, and the stack holds the other flavor, which was not requested
C19_Witness ==
    /\ AllIdle
    /\ Len(hist) = 2
    /\ hist[1].op = "addProduct"
    /\ hist[1].result = "ok"
    /\ Last.op = "reload"
    /\ Last.result = "ok"
    /\ Last.arg.flavors = <<hist[1].arg.flavor>>
    /\ ~Registered(Last.proc, hist[1].arg.name, hist[1].arg.flavor,
                   hist[1].arg.version)
    /\ \E g \in DOMAIN lookup[Last.proc] : g # hist[1].arg.flavor

\* the flavors of the list in which the call that starts changes a tag
Affected(p, op, a) ==
    {f \in SeqToSet(a.flavors) :
        /\ Contains(p, a.name, f)
        /\ IF op = "assignTag"
           THEN a.version \in lookup[p][f][a.name].versions
           ELSE a.tag \in DOMAIN lookup[p][f][a.name].tags}

\* C20: with autosave (and a user-tag directory), an assignTag or unassignTag
\* of a user tag that changes something writes the user-tag file of every
\* affected (flavor, tag), ends without error and leaves the cache files
\* untouched; the same call with a global tag writes no user-tag file.
C20_TagsAreSavedToTheirOwnFiles ==
    [][\A p \in Procs : \A op \in {"assignTag", "unassignTag"} :
         /\ (/\ Starts(p, op)
             /\ autosave[p]
             /\ userTagDir[p]
             /\ IsUserTag(ArgOf(p, op).tag)
             /\ ~EndsAtOnce(p, op, "ProductNotFound"))
            => /\ files' = files
               /\ ~EndsAtOnce(p, op, "UnboundLocalError")
               /\ \A f \in Affected(p, op, ArgOf(p, op)) :
                     <<f, ArgOf(p, op).tag>> \in DOMAIN tagfiles'
         /\ (/\ autosave[p]
             /\ \/ Starts(p, op) /\ ~IsUserTag(ArgOf(p, op).tag)
                \/ ctl[p].op = op /\ ~IsUserTag(ctl[p].arg.tag))
            => tagfiles' = tagfiles]_vars

\* every tag of every family is carried by a version that the family holds
TagsPointToVersions ==
    \A p \in Procs : \A f \in DOMAIN lookup[p] : \A n \in DOMAIN lookup[p][f] :
        \A t \in DOMAIN lookup[p][f][n].tags :
            /\ getTaggedProduct(p, n, f, t) = lookup[p][f][n].tags[t]
            /\ hasProduct(p, n, f, getTaggedProduct(p, n, f, t))

\* an assignTag that does not fail leaves the tag, in every target flavor that
\* holds the version, on the version assigned, and on no other version
LastAssignmentWins ==
    \A p \in Procs :
        (Starts(p, "assignTag") /\ ~EndsAtOnce(p, "assignTag", "ProductNotFound"))
        => LET a == ArgOf(p, "assignTag")
           IN  \A f \in Affected(p, "assignTag", a) :
                   /\ RegisteredAfter(p, a.name, f, a.version)
                   /\ a.tag \in DOMAIN lookup'[p][f][a.name].tags
                   /\ lookup'[p][f][a.name].tags[a.tag] = a.version

\* C21: within one (flavor, product) a tag is carried by at most one version,
\* one that the family holds; assigning a tag that another version carries
\* moves it, so that getTaggedProduct returns the version assigned last.
C21_TagOnOneVersionLastWins ==
    []TagsPointToVersions /\ [][LastAssignmentWins]_vars

\* C21 happens: the tag that version 1.0 carried was assigned to version 1.1
\* of the same product, which holds both versions
C21_Witness ==
    /\ AllIdle
    /\ Len(hist) > 0
    /\ Last.op = "assignTag"
    /\ Last.result = "ok"
    /\ Last.arg.version = "1.1"
    /\ Last.arg.tag = GlobalTag
    /\ Registered(Last.proc, "astro", "Linux64", "1.0")
    /\ getTaggedProduct(Last.proc, "astro", "Linux64", GlobalTag) = "1.1"

\* C22: import_(products) marks dirty every flavor that appears in the
\* imported structure, and with autosave an import_ that ended well leaves
\* no imported flavor dirty.
C22_ImportMarksAndSaves ==
    [](( /\ AllIdle
            /\ Len(hist) > 0
            /\ Last.op = "import_"
            /\ Last.result = "ok"
            /\ autosave[Last.proc])
          => \A f \in DOMAIN Last.arg : ~InSeq(updated[Last.proc], f))
    /\ [][\A p \in Procs :
            Starts(p, "import_")
            => \A f \in DOMAIN ArgOf(p, "import_") : InSeq(updated'[p], f)]_vars

\* C24: addFlavor(flavor) on a flavor that is not registered gives it an
\* empty mapping, so that getFlavors() lists it, and on a registered flavor,
\* with or without products, it changes nothing; a second call therefore
\* leaves what the first one left. No other flavor and nothing else changes.
C24_AddFlavorIdempotent ==
    [][\A p \in Procs :
         Starts(p, "addFlavor") =>
             LET flavor == ArgOf(p, "addFlavor").flavor
             IN  /\ EndsAtOnce(p, "addFlavor", "ok")
                 /\ DOMAIN lookup'[p] = DOMAIN lookup[p] \cup {flavor}
                 /\ InSeq(getFlavors(p)', flavor)
                 /\ \A g \in DOMAIN lookup[p] : lookup'[p][g] = lookup[p][g]
                 /\ flavor \notin DOMAIN lookup[p]
                       => lookup'[p][flavor] = EmptyDict
                 /\ UNCHANGED <<updated, modtimes, usertags, files, tagfiles,
                                locks>>]_vars

\* C24 happens: addFlavor of a flavor that holds products, which it keeps
C24_Witness ==
    /\ Len(hist) > 0
    /\ Last.op = "addFlavor"
    /\ Last.result = "ok"
    /\ Contains(Last.proc, "astro", Last.arg.flavor)

\* the configuration names a directory that does not exist
MissingDirectory(a) ==
    \/ a.prodPersistDir \notin {NoDir} \cup Dirs
    \/ a.userTagPersistDir \notin {NoDir} \cup Dirs

\* the database path is empty or is not there
BadDatabasePath(a) == a.dbpath \notin Dirs

\* the constructor raises and the stack that p held is as it was
FailsToConstruct(p) ==
    /\ \/ EndsAtOnce(p, "__init__", "RuntimeError")
       \/ EndsAtOnce(p, "__init__", "IOError")
    /\ UNCHANGED <<memVars, cfgVars, diskVars>>

\* C23: constructing a ProductStack fails at once, and produces no stack,
\* when the database path is empty or missing or when a configured
\* product-persist or user-tag directory does not exist, whatever autosave is.
C23_ConstructionFailsFast ==
    [][\A p \in Procs :
         (/\ Starts(p, "__init__")
          /\ \/ BadDatabasePath(ArgOf(p, "__init__"))
             \/ MissingDirectory(ArgOf(p, "__init__")))
         => FailsToConstruct(p)]_vars

\* C23 amended: the construction fails at once, producing no stack, exactly
\* when the database path is empty or missing, or autosave is on and a
\* configured product-persist or user-tag directory does not exist;
\* otherwise it gives an empty stack with the settings asked for.
C23_ConstructionFailsFastUnderAutosave ==
    [][\A p \in Procs :
         Starts(p, "__init__") =>
             LET a == ArgOf(p, "__init__")
             IN  IF \/ BadDatabasePath(a)
                    \/ a.autosave /\ MissingDirectory(a)
                 THEN FailsToConstruct(p)
                 ELSE /\ EndsAtOnce(p, "__init__", "ok")
                      /\ lookup'[p] = EmptyDict
                      /\ updated'[p] = <<>>
                      /\ modtimes'[p] = EmptyDict
                      /\ usertags'[p] = EmptyDict
                      /\ autosave'[p] = a.autosave]_vars

\* C23 happens: with autosave the persist directory that is not there makes
\* the construction fail, and the stack that was there still holds its products
C23_Witness ==
    /\ Len(hist) > 0
    /\ Last.op = "__init__"
    /\ Last.result = "IOError"
    /\ Last.arg.dbpath = DefaultDir
    /\ Last.arg.autosave
    /\ Last.arg.prodPersistDir = Nowhere
    /\ Last.arg.userTagPersistDir = NoDir
    /\ hasProduct(Last.proc, "astro", NoFlavor, NoVersion)

\* C25: the content of a stack built by fromDatabase depends only on what
\* the database declares: whatever cache files the persist directory held
\* (none, fresh, stale or of other content), the stack of a fromDatabase that
\* has just ended holds the flavors, products, versions and tags that the
\* database declares, and nothing else.
C25_FromDatabaseIgnoresCaches ==
    (/\ AllIdle
     /\ Len(hist) > 0
     /\ Last.op = "fromDatabase"
     /\ Last.result = "ok")
    => /\ HoldsDatabase(Last.proc)
       /\ DOMAIN lookup[Last.proc] = {product.flavor : product \in db}

\* C25 happens: the stack was built from a database that declares more than
\* the cache file of the flavor holds, and the file of the other flavor is
\* there too
C25_Witness ==
    /\ AllIdle
    /\ Len(hist) > 0
    /\ Last.op = "fromDatabase"
    /\ Last.result = "ok"
    /\ DOMAIN StartFiles \subseteq DOMAIN files
    /\ hasProduct(Last.proc, "astro", "Linux64", "1.1")
    /\ files[<<DefaultDir, "Linux64">>].data # lookup[Last.proc]["Linux64"]

\* process p writes a flavor in this step: the flavor and the file written
Writes(p) == ctl[p].pc = "persist" /\ ctl'[p] # ctl[p]

WrittenFlavor(p) == Head(ctl[p].sflav)

WrittenFile(p) == persistPath(WrittenFlavor(p), ctl[p].sdir)

\* the ledger entry of the file written is the file's new modification time
LedgerFollowsWrite(p) ==
    /\ WrittenFile(p) \in DOMAIN files'
    /\ WrittenFile(p) \in DOMAIN modtimes'[p]
    /\ modtimes'[p][WrittenFile(p)] = files'[WrittenFile(p)].mtime

\* C26: whenever save writes a flavor, to the default directory or to a
\* directory given to save, the ledger entry of the written path is the
\* file's new modification time and the flavor is not in the dirty list.
C26_WrittenFlavorIsClean ==
    [][\A p \in Procs :
         Writes(p) => /\ LedgerFollowsWrite(p)
                      /\ ~InSeq(updated'[p], WrittenFlavor(p))]_vars

\* C26 amended: whenever save writes a flavor the ledger entry of the written
\* path is the file's new modification time; the flavor leaves the dirty
\* list when it is written to the default directory, and the dirty list is
\* as it was when it is written to a directory given to save.
C26_WrittenFlavorIsCleanInDefaultDir ==
    [][\A p \in Procs :
         Writes(p) => /\ LedgerFollowsWrite(p)
                      /\ IF ctl[p].sdir = NoDir
                         THEN ~InSeq(updated'[p], WrittenFlavor(p))
                         ELSE updated'[p] = updated[p]]_vars

\* C26 happens: a dirty flavor was saved to the other directory and is dirty
\* still, and the ledger has the time of the file written there
C26_Witness ==
    /\ AllIdle
    /\ Len(hist) > 0
    /\ Last.op = "save"
    /\ Last.result = "ok"
    /\ Last.arg.dir = AltDir
    /\ Last.arg.flavors = <<"Linux64">>
    /\ InSeq(updated[Last.proc], "Linux64")
    /\ <<AltDir, "Linux64">> \in DOMAIN files
    /\ modtimes[Last.proc][<<AltDir, "Linux64">>]
          = files[<<AltDir, "Linux64">>].mtime

\* process p is in save in this step: save starts, or its loop goes on
InSave(p) == Starts(p, "save") \/ ctl[p].pc \in {"check", "persist"}

\* C29: save never changes the lookup: for any flavors argument, flavors that
\* are not registered included, getFlavors() and the content of every flavor
\* are after every step of save what they were before it.
C29_SaveKeepsLookup ==
    [][\A p \in Procs : InSave(p) => lookup'[p] = lookup[p]]_vars

\* C29 amended: save never changes the content of a registered flavor; a
\* flavor that is not registered becomes registered, without products, when
\* save writes it, and no other flavor is added.
C29_SaveKeepsRegisteredFlavors ==
    [][\A p \in Procs :
         InSave(p) =>
             /\ \A g \in DOMAIN lookup[p] :
                   /\ g \in DOMAIN lookup'[p]
                   /\ lookup'[p][g] = lookup[p][g]
             /\ \A g \in DOMAIN lookup'[p] \ DOMAIN lookup[p] :
                   /\ Writes(p)
                   /\ g = WrittenFlavor(p)
                   /\ lookup'[p][g] = EmptyDict]_vars

\* C29 happens: the one thing a new stack did was a save of a flavor, which
\* it now lists without products next to the cache file written
C29_Witness ==
    /\ AllIdle
    /\ Len(hist) = 1
    /\ Last.op = "save"
    /\ Last.result = "ok"
    /\ DOMAIN lookup[Last.proc] = {"Linux64"}
    /\ lookup[Last.proc]["Linux64"] = EmptyDict
    /\ <<DefaultDir, "Linux64">> \in DOMAIN files

\* the last two things that happened: a clearCache of flavors by a stack
\* and then its save, to the default directory, of flavors among them
SavedAfterClearCache ==
    /\ AllIdle
    /\ Len(hist) >= 2
    /\ hist[Len(hist) - 1].op = "clearCache"
    /\ hist[Len(hist) - 1].result = "ok"
    /\ Last.op = "save"
    /\ Last.proc = hist[Len(hist) - 1].proc
    /\ Last.arg.dir = NoDir
    /\ Last.arg.flavors # <<>>
    /\ SeqToSet(Last.arg.flavors) \subseteq SeqToSet(hist[Len(hist) - 1].arg.flavors)

\* C30: after clearCache removed the cache file of a flavor, a save of that
\* flavor ends well and the file is there again, also when the ledger of the
\* stack still has an entry for the file.
C30_SaveAfterClearCacheSucceeds ==
    SavedAfterClearCache
    => /\ Last.result = "ok"
       /\ \A f \in SeqToSet(Last.arg.flavors) :
             <<DefaultDir, f>> \in DOMAIN files

\* what the stack of p holds for a flavor; nothing for a flavor it lacks
ContentOf(p, flavor) ==
    IF flavor \in DOMAIN lookup[p] THEN lookup[p][flavor] ELSE EmptyDict

\* C27: in every state between operations, a flavor whose cache file this
\* stack has written or loaded (the ledger has the file, and the file is
\* there) and that is not in the dirty list holds in memory what the file
\* holds: every change of a flavor in memory marks the flavor dirty.
C27_CleanFlavorEqualsSnapshot ==
    AllIdle =>
        \A p \in Procs : \A file \in DOMAIN modtimes[p] \cap DOMAIN files :
            ~InSeq(updated[p], file[2])
                => ContentOf(p, file[2]) = files[file].data

\* the overlay of p has the tag on the version for the product and flavor
InOverlay(p, flavor, tag, name, version) ==
    /\ flavor \in DOMAIN usertags[p]
    /\ tag \in DOMAIN usertags[p][flavor]
    /\ name \in DOMAIN usertags[p][flavor][tag]
    /\ usertags[p][flavor][tag][name] = version

\* the family of the product in the flavor carries the tag on the version
Carries(p, flavor, tag, name, version) ==
    /\ Contains(p, name, flavor)
    /\ tag \in DOMAIN lookup[p][flavor][name].tags
    /\ lookup[p][flavor][name].tags[tag] = version

\* C28: in every state between operations the user-tag overlay mirrors the
\* tag assignments in memory: usertags[flavor][tag][product] = version
\* exactly when the tag is a user tag and the family carries it on version.
C28_OverlayMirrorsUserTags ==
    AllIdle =>
        \A p \in Procs, f \in Flavors, t \in Tags, n \in Names, v \in Versions :
            InOverlay(p, f, t, n, v) <=> (IsUserTag(t) /\ Carries(p, f, t, n, v))

\* the operations that change the products or tags of a stack
MutatingOps == {"addProduct", "removeProduct", "import_", "assignTag",
                "unassignTag"}

\* the results of an operation that returned without raising
Returned == {"ok", "True", "False"}

\* C31: with autosave on, when the last operation that ended is a mutating
\* one (addProduct, removeProduct, import_, assignTag, unassignTag, the tag
\* global or user-scoped) and it returned without error, the dirty list of
\* the stack is empty: saveNeeded() is false.
C31_AutosaveLeavesNothingDirty ==
    (AllIdle /\ hist # <<>> /\ Last.proc \in Procs)
        => ((autosave[Last.proc] /\ Last.op \in MutatingOps
                /\ Last.result \in Returned)
            => ~saveNeeded(Last.proc))

\* the ledger of p has the file, the file is there
Recorded(p, file) == file \in DOMAIN modtimes[p] /\ file \in DOMAIN files

\* no ledger entry of an existing file is later than the file's time on disk
LedgerNotLater ==
    \A p \in Procs : \A file \in Paths :
        Recorded(p, file) => modtimes[p][file] <= files[file].mtime

\* before the step the entry of p for the file differs from the file's time
Behind(p, file) ==
    Recorded(p, file) /\ modtimes[p][file] # files[file].mtime

\* after the step the entry of p for the file differs from the file's time
BehindAfter(p, file) ==
    /\ file \in DOMAIN modtimes'[p]
    /\ file \in DOMAIN files'
    /\ modtimes'[p][file] # files'[file].mtime

\* the step is one of stack p: its position moves, or its call ends
StepOf(p) ==
    \/ ctl'[p] # ctl[p]
    \/ Len(hist') = Len(hist) + 1 /\ Answer.proc = p

\* an entry falls behind its file only in a step that is not the stack's own
FallsBehindByOthersOnly ==
    \A p \in Procs : \A file \in Paths :
        (BehindAfter(p, file) /\ ~Behind(p, file)) => ~StepOf(p)

\* the flavor and the file of the reload step that p takes
ReloadedFlavor(p) == Head(ctl[p].rflav)

ReloadedFile(p) == persistPath(ReloadedFlavor(p), ctl[p].sdir)

\* p reads a file in this step of its reload
Reloads(p) ==
    /\ ctl[p].pc = "reload"
    /\ StepOf(p)
    /\ ReloadedFile(p) \in DOMAIN files

\* the time reload records is the time of the file whose content it takes
ReloadRecordsWhatItRead ==
    \A p \in Procs :
        Reloads(p) =>
            /\ ReloadedFile(p) \in DOMAIN modtimes'[p]
            /\ modtimes'[p][ReloadedFile(p)] = files[ReloadedFile(p)].mtime
            /\ ReloadedFlavor(p) \in DOMAIN lookup'[p]
            /\ lookup'[p][ReloadedFlavor(p)] = files[ReloadedFile(p)].data
            /\ files' = files

\* C32: in every reachable state, for every path of the ledger whose file
\* exists, the entry is not later than the file's modification time on disk;
\* an entry that equals the file's time stops doing so only in a step of
\* another process (a write of another stack, a touch), never in a step of
\* the stack itself, whose saves and reloads record the time of the file;
\* and a reload records the time of the very content it reads.
C32_LedgerFollowsDisk ==
    /\ []LedgerNotLater
    /\ [][FallsBehindByOthersOnly /\ ReloadRecordsWhatItRead]_vars

\* one stack has reloaded the file after it was rewritten or touched and its
\* entry is the file's time, while the entry of the other stack is behind
C32_Witness ==
    /\ AllIdle
    /\ hist # <<>>
    /\ Last.op = "reload"
    /\ Last.result = "ok"
    /\ \E p \in Procs, q \in Procs :
          LET file == <<DefaultDir, LedgerFlavor>>
          IN  /\ p = Last.proc
              /\ q # p
              /\ Recorded(p, file)
              /\ files[file].mtime > 1
              /\ modtimes[p][file] = files[file].mtime
              /\ Recorded(q, file)
              /\ modtimes[q][file] < files[file].mtime

====
